---- MODULE Spec2Model ----
(***************************************************************************)
(* A model of the layout engine of cq-kit: RectLayout (row / column wise   *)
(* packing of rectangles with the reshape and resize searches) and         *)
(* ShapeLayoutArranger (placing solids along an axis of an inset region).  *)
(*                                                                         *)
(* Numbers.  The code computes in floats; the model computes the same      *)
(* expressions exactly, in integers.  Every length of a rectangle is held  *)
(* in half units (a rect built as Rect(w, h) has width 2 * w here), so     *)
(* that the code's "/ 2" is exact.  Ratios (whitespace, distortion) are    *)
(* held as a numerator and a denominator and compared by cross             *)
(* multiplication.                                                         *)
(***************************************************************************)
EXTENDS Integers, Sequences, FiniteSets, TLC

VARIABLES rects, bounds, call, outcome, results, arranger

vars == <<rects, bounds, call, outcome, results, arranger>>

(***************************************************************************)
(* Bounds of the model.                                                    *)
(***************************************************************************)
MaxRects == 3
MaxDim == 2
MaxBound == 3
MaxCalls == 2

(***************************************************************************)
(* Python helpers.                                                         *)
(***************************************************************************)
SetMax(S) == CHOOSE m \in S : \A e \in S : e <= m

SetMin(S) == CHOOSE m \in S : \A e \in S : m <= e

Max2(a, b) == IF a >= b THEN a ELSE b

Abs(a) == IF a < 0 THEN 0 - a ELSE a

RECURSIVE SeqSum(_)
SeqSum(s) == IF s = <<>> THEN 0 ELSE Head(s) + SeqSum(Tail(s))

(***************************************************************************)
(* Rect and RectCell.  row = col = -1 stands for None.                     *)
(***************************************************************************)
Rect(w, h, bottomUp) ==
    [bottom_up |-> bottomUp,
     left |-> 0 - w, right |-> w,
     top |-> IF bottomUp THEN 0 - h ELSE h,
     bottom |-> IF bottomUp THEN h ELSE 0 - h,
     width |-> Abs(w - (0 - w)),
     height |-> Abs(h - (0 - h))]

RectCell(w, h, ha, va) ==
    [bottom_up |-> FALSE,
     left |-> 0 - w, right |-> w, top |-> h, bottom |-> 0 - h,
     width |-> Abs(w - (0 - w)), height |-> Abs(h - (0 - h)),
     row |-> -1, col |-> -1, horz_align |-> ha, vert_align |-> va]

move_top_left_to(r, x, y) ==
    [r EXCEPT !.left = x, !.right = x + r.width, !.top = y,
              !.bottom = IF r.bottom_up THEN y + r.height ELSE y - r.height]

move_bottom_left_to(r, x, y) ==
    [r EXCEPT !.left = x, !.right = x + r.width, !.bottom = y,
              !.top = IF r.bottom_up THEN y - r.height ELSE y + r.height]

(* Rect.bounding_rect_from_rects: a fresh Rect() (bottom_up False) fitted  *)
(* to the left/top and right/bottom points of every rect.                  *)
bounding_rect(rs) ==
    LET bx == {rs[i].left : i \in DOMAIN rs} \cup {rs[i].right : i \in DOMAIN rs}
        by == {rs[i].top : i \in DOMAIN rs} \cup {rs[i].bottom : i \in DOMAIN rs}
        l == SetMin(bx)
        r == SetMax(bx)
        t == SetMax(by)
        b == SetMin(by)
    IN  [bottom_up |-> FALSE, left |-> l, right |-> r, top |-> t, bottom |-> b,
         width |-> Abs(r - l), height |-> Abs(t - b)]

(***************************************************************************)
(* RectLayout: queries.                                                    *)
(***************************************************************************)
IsAssigned(r) == ~(r.row < 0 \/ r.col < 0)

iter_assigned(rs) == SelectSeq([i \in 1 .. Len(rs) |-> i], LAMBDA i : IsAssigned(rs[i]))

len_assigned(rs) == Len(iter_assigned(rs))

row_count(rs) ==
    LET assigned == {j \in DOMAIN rs : IsAssigned(rs[j])}
    IN  IF assigned # {} THEN SetMax({rs[i].row : i \in assigned}) + 1 ELSE 0

col_count(rs) ==
    LET assigned == {j \in DOMAIN rs : IsAssigned(rs[j])}
    IN  IF assigned # {} THEN SetMax({rs[i].col : i \in assigned}) + 1 ELSE 0

(* the index of the first rect in list order that holds the cell, 0 for None *)
rect_at(rs, row, col) ==
    LET hits == {i \in DOMAIN rs : IsAssigned(rs[i]) /\ rs[i].row = row /\ rs[i].col = col}
    IN  IF hits = {} THEN 0 ELSE SetMin(hits)

(* the indices that iter_at_row / iter_at_col yield, in order: the cells   *)
(* of the row (column) from column (row) 0 up, skipping empty cells        *)
iter_at_row(rs, row) ==
    LET cc == col_count(rs)
        at == [k \in 1 .. cc |-> rect_at(rs, row, k - 1)]
    IN  SelectSeq(at, LAMBDA i : i # 0)

iter_at_col(rs, col) ==
    LET rc == row_count(rs)
        at == [k \in 1 .. rc |-> rect_at(rs, k - 1, col)]
    IN  SelectSeq(at, LAMBDA i : i # 0)

iter_row_wise(rs) ==
    LET rc == row_count(rs)
        cc == col_count(rs)
        at == [k \in 1 .. rc * cc |-> rect_at(rs, (k - 1) \div cc, (k - 1) % cc)]
    IN  SelectSeq(at, LAMBDA i : i # 0)

iter_col_wise(rs) ==
    LET rc == row_count(rs)
        cc == col_count(rs)
        at == [k \in 1 .. rc * cc |-> rect_at(rs, (k - 1) % rc, (k - 1) \div rc)]
    IN  SelectSeq(at, LAMBDA i : i # 0)

Range(s) == {s[i] : i \in DOMAIN s}

row_width(rs, row) ==
    LET it == iter_at_row(rs, row) IN SeqSum([k \in DOMAIN it |-> rs[it[k]].width])

row_height(rs, row) == SetMax({rs[i].height : i \in Range(iter_at_row(rs, row))})

row_top(rs, row) == SetMax({rs[i].top : i \in Range(iter_at_row(rs, row))})

col_height(rs, col) ==
    LET it == iter_at_col(rs, col) IN SeqSum([k \in DOMAIN it |-> rs[it[k]].height])

col_width(rs, col) == SetMax({rs[i].width : i \in Range(iter_at_col(rs, col))})

col_left(rs, col) == SetMin({rs[i].left : i \in Range(iter_at_col(rs, col))})

(* validate_shape: TRUE, or FALSE where the code raises ValueError *)
validate_shape(rs, shape) ==
    IF shape = <<>> THEN TRUE ELSE ~(shape[1] * shape[2] < Len(rs))

clear_assigned(rs) == [i \in DOMAIN rs |-> [rs[i] EXCEPT !.row = -1, !.col = -1]]

assign_rect(r, row, col, x, y) ==
    move_top_left_to([r EXCEPT !.row = row, !.col = col], x, y)

(***************************************************************************)
(* RectLayout: alignment passes.  Each pass visits the rects in the order  *)
(* of the code's iterator and reads row_top / col_left from the rects as   *)
(* they stand at that moment.                                              *)
(***************************************************************************)
(* AlignVertStep as it would be if a bottom-aligned rect were hung by its  *)
(* top left corner from the bottom of the row                              *)
AlignVertStepHangsBelow(rs, i) ==
    LET rect == rs[i]
        x == rect.left
        y == row_top(rs, rect.row)
        rh == row_height(rs, rect.row)
    IN  [rs EXCEPT ![i] =
            IF rect.vert_align = "bottom" THEN move_top_left_to(rect, x, y - rh)
            ELSE IF rect.vert_align \in {"centre", "center"}
                 THEN move_top_left_to(rect, x, y - (rh \div 2) + (rect.height \div 2))
                 ELSE move_top_left_to(rect, x, y)]

AlignVertStep(rs, i) ==
    LET rect == rs[i]
        x == rect.left
        y == row_top(rs, rect.row)
        rh == row_height(rs, rect.row)
    IN  [rs EXCEPT ![i] =
            IF rect.vert_align = "bottom" THEN move_bottom_left_to(rect, x, y - rh)
            ELSE IF rect.vert_align \in {"centre", "center"}
                 THEN move_top_left_to(rect, x, y - (rh \div 2) + (rect.height \div 2))
                 ELSE move_top_left_to(rect, x, y)]

RECURSIVE AlignVertLoop(_, _)
AlignVertLoop(order, rs) ==
    IF order = <<>> THEN rs ELSE AlignVertLoop(Tail(order), AlignVertStep(rs, Head(order)))

align_rows_vert(rs) ==
    IF ~(len_assigned(rs) > 0) THEN rs ELSE AlignVertLoop(iter_row_wise(rs), rs)

AlignHorzStep(rs, i) ==
    LET rect == rs[i]
        x == col_left(rs, rect.col)
        y == rect.top
        cw == col_width(rs, rect.col)
    IN  [rs EXCEPT ![i] =
            IF rect.horz_align = "right" THEN move_top_left_to(rect, x + cw - rect.width, y)
            ELSE IF rect.horz_align \in {"centre", "center"}
                 THEN move_top_left_to(rect, x + (cw \div 2) - (rect.width \div 2), y)
                 ELSE move_top_left_to(rect, x, y)]

RECURSIVE AlignHorzLoop(_, _)
AlignHorzLoop(order, rs) ==
    IF order = <<>> THEN rs ELSE AlignHorzLoop(Tail(order), AlignHorzStep(rs, Head(order)))

align_cols_horz(rs) ==
    IF ~(len_assigned(rs) > 0) THEN rs ELSE AlignHorzLoop(iter_col_wise(rs), rs)

(* col_x[col + 1] and col_y[row + 1] of align_grid *)
RECURSIVE GridX(_, _)
GridX(rs, col) == IF col = 0 THEN col_left(rs, 0) ELSE GridX(rs, col - 1) + col_width(rs, col - 1)

RECURSIVE GridY(_, _)
GridY(rs, row) == IF row = 0 THEN row_top(rs, 0) ELSE GridY(rs, row - 1) - row_height(rs, row - 1)

align_grid(rs) ==
    IF ~(len_assigned(rs) > 0) THEN rs
    ELSE LET col_x == [col \in 0 .. col_count(rs) - 1 |-> GridX(rs, col)]
             col_y == [row \in 0 .. row_count(rs) - 1 |-> GridY(rs, row)]
             placed == [i \in DOMAIN rs |->
                          IF IsAssigned(rs[i]) /\ rect_at(rs, rs[i].row, rs[i].col) = i
                          THEN move_top_left_to(rs[i], col_x[rs[i].col], col_y[rs[i].row])
                          ELSE rs[i]]
         IN  align_cols_horz(align_rows_vert(placed))

(* rows (columns) are visited from 1 up, each rect of a row is moved by    *)
(* row * height (col * width)                                              *)
add_row_gutters(rs, height) ==
    IF ~(len_assigned(rs) > 0) THEN rs
    ELSE [i \in DOMAIN rs |->
            IF IsAssigned(rs[i]) /\ rs[i].row >= 1 /\ rect_at(rs, rs[i].row, rs[i].col) = i
            THEN move_top_left_to(rs[i], rs[i].left, rs[i].top - rs[i].row * height)
            ELSE rs[i]]

add_col_gutters(rs, width) ==
    IF ~(len_assigned(rs) > 0) THEN rs
    ELSE [i \in DOMAIN rs |->
            IF IsAssigned(rs[i]) /\ rs[i].col >= 1 /\ rect_at(rs, rs[i].row, rs[i].col) = i
            THEN move_top_left_to(rs[i], rs[i].left + rs[i].col * width, rs[i].top)
            ELSE rs[i]]

(***************************************************************************)
(* RectLayout.layout_row_wise / layout_col_wise.  shape = <<>> stands for  *)
(* shape=None.  The container b is held at a resolution of u steps per     *)
(* half unit (u = 1 unless the resize search has shrunk it by a fraction); *)
(* its left and top edges are never fractional.                            *)
(***************************************************************************)
(* RowStep as it would be if the right boundary broke rows even without    *)
(* hard_bounds_limit                                                       *)
RowStepBoundaryBreaks(st, i, b, u, shape, hard_bounds_limit) ==
        LET r == st.rs[i]
            enough_space == (st.run + r.width) * u <= b.width
            row_break == IF shape # <<>>
                         THEN (~(st.col < shape[2])) \/ ~enough_space
                         ELSE ~enough_space
        IN  IF ~row_break \/ st.run = 0
            THEN [rs |-> [st.rs EXCEPT ![i] = assign_rect(r, st.row, st.col, st.x, st.y)],
                  row |-> st.row, col |-> st.col + 1,
                  run |-> st.run + r.width, across |-> Max2(st.across, r.height),
                  x |-> st.x + r.width, y |-> st.y]
            ELSE [rs |-> [st.rs EXCEPT ![i] =
                             assign_rect(r, st.row + 1, 0, b.left \div u, st.y - st.across)],
                  row |-> st.row + 1, col |-> 1,
                  run |-> r.width, across |-> r.height,
                  x |-> (b.left \div u) + r.width, y |-> st.y - st.across]

(* RowStep as it would be if a new row started at the height of the last   *)
(* rect of the row above instead of the tallest                            *)
RowStepLastHeight(st, i, b, u, shape, hard_bounds_limit) ==
        LET r == st.rs[i]
            enough_space == (st.run + r.width) * u <= b.width
            row_break == IF shape # <<>>
                         THEN (~(st.col < shape[2])) \/ (hard_bounds_limit /\ ~enough_space)
                         ELSE ~enough_space
        IN  IF ~row_break \/ st.run = 0
            THEN [rs |-> [st.rs EXCEPT ![i] = assign_rect(r, st.row, st.col, st.x, st.y)],
                  row |-> st.row, col |-> st.col + 1,
                  run |-> st.run + r.width, across |-> r.height,
                  x |-> st.x + r.width, y |-> st.y]
            ELSE [rs |-> [st.rs EXCEPT ![i] =
                             assign_rect(r, st.row + 1, 0, b.left \div u, st.y - st.across)],
                  row |-> st.row + 1, col |-> 1,
                  run |-> r.width, across |-> r.height,
                  x |-> (b.left \div u) + r.width, y |-> st.y - st.across]

RowStep(st, i, b, u, shape, hard_bounds_limit) ==
        LET r == st.rs[i]
            enough_space == (st.run + r.width) * u <= b.width
            row_break == IF shape # <<>>
                         THEN (~(st.col < shape[2])) \/ (hard_bounds_limit /\ ~enough_space)
                         ELSE ~enough_space
        IN  IF ~row_break \/ st.run = 0
            THEN [rs |-> [st.rs EXCEPT ![i] = assign_rect(r, st.row, st.col, st.x, st.y)],
                  row |-> st.row, col |-> st.col + 1,
                  run |-> st.run + r.width, across |-> Max2(st.across, r.height),
                  x |-> st.x + r.width, y |-> st.y]
            ELSE [rs |-> [st.rs EXCEPT ![i] =
                             assign_rect(r, st.row + 1, 0, b.left \div u, st.y - st.across)],
                  row |-> st.row + 1, col |-> 1,
                  run |-> r.width, across |-> r.height,
                  x |-> (b.left \div u) + r.width, y |-> st.y - st.across]

(* ColStep as it would be if a new column did not start again at row 0 *)
ColStepKeepsRow(st, i, b, u, shape, hard_bounds_limit) ==
        LET r == st.rs[i]
            enough_space == (st.run + r.height) * u <= b.height
            col_break == IF shape # <<>>
                         THEN (~(st.row < shape[1])) \/ (hard_bounds_limit /\ ~enough_space)
                         ELSE ~enough_space
        IN  IF ~col_break \/ st.run = 0
            THEN [rs |-> [st.rs EXCEPT ![i] = assign_rect(r, st.row, st.col, st.x, st.y)],
                  row |-> st.row + 1, col |-> st.col,
                  run |-> st.run + r.height, across |-> Max2(st.across, r.width),
                  x |-> st.x, y |-> st.y - r.height]
            ELSE [rs |-> [st.rs EXCEPT ![i] =
                             assign_rect(r, st.row, st.col + 1, st.x + st.across, b.top \div u)],
                  row |-> st.row + 1, col |-> st.col + 1,
                  run |-> r.height, across |-> r.width,
                  x |-> st.x + st.across, y |-> (b.top \div u) - r.height]

ColStep(st, i, b, u, shape, hard_bounds_limit) ==
        LET r == st.rs[i]
            enough_space == (st.run + r.height) * u <= b.height
            col_break == IF shape # <<>>
                         THEN (~(st.row < shape[1])) \/ (hard_bounds_limit /\ ~enough_space)
                         ELSE ~enough_space
        IN  IF ~col_break \/ st.run = 0
            THEN [rs |-> [st.rs EXCEPT ![i] = assign_rect(r, st.row, st.col, st.x, st.y)],
                  row |-> st.row + 1, col |-> st.col,
                  run |-> st.run + r.height, across |-> Max2(st.across, r.width),
                  x |-> st.x, y |-> st.y - r.height]
            ELSE [rs |-> [st.rs EXCEPT ![i] =
                             assign_rect(r, 0, st.col + 1, st.x + st.across, b.top \div u)],
                  row |-> 1, col |-> st.col + 1,
                  run |-> r.height, across |-> r.width,
                  x |-> st.x + st.across, y |-> (b.top \div u) - r.height]

RECURSIVE RowLoop(_, _, _, _, _, _)
RowLoop(st, i, b, u, shape, hard_bounds_limit) ==
    IF i > Len(st.rs) THEN st
    ELSE RowLoop(RowStep(st, i, b, u, shape, hard_bounds_limit), i + 1, b, u, shape, hard_bounds_limit)

RECURSIVE ColLoop(_, _, _, _, _, _)
ColLoop(st, i, b, u, shape, hard_bounds_limit) ==
    IF i > Len(st.rs) THEN st
    ELSE ColLoop(ColStep(st, i, b, u, shape, hard_bounds_limit), i + 1, b, u, shape, hard_bounds_limit)

LoopStart(rs, b, u) ==
    [rs |-> clear_assigned(rs), row |-> 0, col |-> 0, run |-> 0, across |-> 0,
     x |-> b.left \div u, y |-> b.top \div u]

(* the result: the rects, and raised = TRUE where validate_shape raises *)
layout_row_wise(rs, b, u, shape, hard_bounds_limit, grid_align, gutter) ==
    IF ~validate_shape(rs, shape) THEN [rs |-> clear_assigned(rs), raised |-> TRUE]
    ELSE LET cells == RowLoop(LoopStart(rs, b, u), 1, b, u, shape, hard_bounds_limit).rs
             aligned == IF grid_align THEN align_grid(cells) ELSE align_rows_vert(cells)
         IN  [rs |-> IF gutter > 0 THEN add_row_gutters(aligned, gutter) ELSE aligned,
              raised |-> FALSE]

layout_col_wise(rs, b, u, shape, hard_bounds_limit, grid_align, gutter) ==
    IF ~validate_shape(rs, shape) THEN [rs |-> clear_assigned(rs), raised |-> TRUE]
    ELSE LET cells == ColLoop(LoopStart(rs, b, u), 1, b, u, shape, hard_bounds_limit).rs
             aligned == IF grid_align THEN align_grid(cells) ELSE align_cols_horz(cells)
         IN  [rs |-> IF gutter > 0 THEN add_col_gutters(aligned, gutter) ELSE aligned,
              raised |-> FALSE]

(***************************************************************************)
(* RectLayout: metrics.  A ratio is a record [num, den]; den = 0 marks the *)
(* division by zero that the code raises on.                               *)
(***************************************************************************)
content_area(rs) == SeqSum([i \in DOMAIN rs |-> rs[i].width * rs[i].height])

total_area(rs) == LET br == bounding_rect(rs) IN br.width * br.height

(* 1.0 - content_area / total_area *)
whitespace(rs) == LET total == total_area(rs) IN [num |-> total - content_area(rs), den |-> total]

max_row_width(rs) == SetMax({row_width(rs, row) : row \in 0 .. row_count(rs) - 1})

min_row_width(rs) == SetMin({row_width(rs, row) : row \in 0 .. row_count(rs) - 1})

max_col_height(rs) == SetMax({col_height(rs, col) : col \in 0 .. col_count(rs) - 1})

min_col_height(rs) == SetMin({col_height(rs, col) : col \in 0 .. col_count(rs) - 1})

row_wise_whitespace(rs) ==
    IF max_row_width(rs) > 0
    THEN [num |-> max_row_width(rs) - min_row_width(rs), den |-> max_row_width(rs)]
    ELSE [num |-> 1, den |-> 1]

col_wise_whitespace(rs) ==
    IF max_col_height(rs) > 0
    THEN [num |-> max_col_height(rs) - min_col_height(rs), den |-> max_col_height(rs)]
    ELSE [num |-> 1, den |-> 1]

RatioLess(a, b) == a.num * b.den < b.num * a.den

RatioLeq(a, b) == a.num * b.den <= b.num * a.den

(* distortion(bounds) = sqrt(x * x + y * y); the ratio returned is its     *)
(* square, x * x + y * y, over the common denominator (W * H)^2.           *)
distortion(rs, b) ==
    IF ~(Abs(b.width) > 0) \/ ~(Abs(b.height) > 0) THEN [num |-> 1, den |-> 1]
    ELSE LET dx == bounding_rect(rs).width - b.width
             dy == bounding_rect(rs).height - b.height
         IN  [num |-> dx * dx * b.height * b.height + dy * dy * b.width * b.width,
              den |-> b.width * b.width * b.height * b.height]

(***************************************************************************)
(* LayoutResult and the reshape search of optimize_layout.  kw holds the   *)
(* arguments of the call: col_wise, hard_bounds_limit, grid_align, gutter, *)
(* full_reshape (TRUE also stands for the keyword left out) and the two    *)
(* weights.  A score is held in fixed point, ScoreSteps steps per unit.    *)
(***************************************************************************)
ScoreSteps == 10000

layout_fn(rs, b, u, shape, kw) ==
    IF kw.col_wise
    THEN layout_col_wise(rs, b, u, shape, kw.hard_bounds_limit, kw.grid_align, kw.gutter)
    ELSE layout_row_wise(rs, b, u, shape, kw.hard_bounds_limit, kw.grid_align, kw.gutter)

(* self.shape after a layout *)
shape_of(rs) == <<row_count(rs), col_count(rs)>>

CellsOf(rs) == [i \in DOMAIN rs |-> <<rs[i].row, rs[i].col>>]

(* the LayoutResult of one candidate; cells records where the candidate   *)
(* layout put each rect                                                    *)
LayoutResult(goal, rs, b, kw) ==
    [goal_shape |-> goal, whitespace |-> whitespace(rs), distortion |-> distortion(rs, b),
     shape |-> shape_of(rs), cells |-> CellsOf(rs),
     whitespace_weight |-> kw.whitespace_weight,
     distortion_weight |-> kw.distortion_weight]

(* int(0.8 * n) and int(0.2 * n) *)
ReshapeDims(n, kw) ==
    LET dmax == (8 * n) \div 10
        dmin == (2 * n) \div 10
    IN  IF kw.full_reshape \/ dmin * dmax < n
        THEN [dim_min |-> 0, dim_max |-> n]
        ELSE [dim_min |-> dmin, dim_max |-> dmax]

(* shape = (dim + 1, dim_max) if col_wise else (dim_max, dim + 1) *)
ReshapeShape(dim, dim_max, kw) ==
    IF kw.col_wise THEN <<dim + 1, dim_max>> ELSE <<dim_max, dim + 1>>

(* for dim in range(dim_min, dim_max): lay out (ReshapeLoop), then measure *)
(* and append the result (ReshapeTry).  The loop stops at the first        *)
(* exception.                                                              *)
RECURSIVE ReshapeLoop(_, _, _, _, _, _)
RECURSIVE ReshapeTry(_, _, _, _, _, _)
ReshapeTry(lay, acc, dim, dim_max, b, kw) ==
    IF lay.raised THEN [rs |-> lay.rs, results |-> acc, outcome |-> "ValueError"]
    ELSE IF total_area(lay.rs) = 0
         THEN [rs |-> lay.rs, results |-> acc, outcome |-> "ZeroDivisionError"]
         ELSE ReshapeLoop(lay.rs,
                          Append(acc, LayoutResult(ReshapeShape(dim, dim_max, kw), lay.rs, b, kw)),
                          dim + 1, dim_max, b, kw)

ReshapeLoop(rs, acc, dim, dim_max, b, kw) ==
    IF ~(dim < dim_max) THEN [rs |-> rs, results |-> acc, outcome |-> "ok"]
    ELSE ReshapeTry(layout_fn(rs, b, 1, ReshapeShape(dim, dim_max, kw), kw),
                    acc, dim, dim_max, b, kw)

(* max(values) of normalize(results, "distortion"): the candidates of one  *)
(* search share the denominator of their distortion                        *)
MaxDistortion(rs) == SetMax({rs[i].distortion.num : i \in DOMAIN rs})

(* a / b <= c / d for b, d > 0, by comparing the continued fractions (no   *)
(* product is formed, so that nothing overflows)                           *)
RECURSIVE FracLeq(_, _, _, _)
FracLeq(a, b, c, d) ==
    IF a \div b # c \div d THEN a \div b < c \div d
    ELSE IF a % b = 0 THEN TRUE
         ELSE IF c % d = 0 THEN FALSE
              ELSE FracLeq(d, c % d, b, a % b)

(* the largest r in lo .. hi - 1 with (r / ScoreSteps)^2 <= n / m *)
RECURSIVE SqrtLoop(_, _, _, _)
SqrtLoop(lo, hi, n, m) ==
    IF hi - lo <= 1 THEN lo
    ELSE LET mid == (lo + hi) \div 2
         IN  IF FracLeq(mid * mid, ScoreSteps * ScoreSteps, n, m)
             THEN SqrtLoop(mid, hi, n, m)
             ELSE SqrtLoop(lo, mid, n, m)

(* r.score of normalize_results: whitespace as it is, distortion divided   *)
(* by the largest distortion (the distortions are held squared, so the     *)
(* quotient is the square root of the quotient of the numerators)          *)
score(r, max_value) ==
    LET w == (r.whitespace.num * ScoreSteps) \div r.whitespace.den
        d == SqrtLoop(0, ScoreSteps + 1, r.distortion.num, max_value)
    IN  r.whitespace_weight * w + r.distortion_weight * d

(* r.score < min_score.  With one of the weights 0 the comparison is that  *)
(* of the other term and is made exactly.                                  *)
ScoreLess(a, b, max_value) ==
    IF a.distortion_weight = 0
    THEN a.whitespace_weight * a.whitespace.num * b.whitespace.den
            < b.whitespace_weight * b.whitespace.num * a.whitespace.den
    ELSE IF a.whitespace_weight = 0
         THEN a.distortion_weight * a.distortion.num < b.distortion_weight * b.distortion.num
         ELSE score(a, max_value) < score(b, max_value)

(* best_score: the index of the best result *)
RECURSIVE BestLoop(_, _, _, _)
BestLoop(rs, i, best, max_value) ==
    IF i > Len(rs) THEN best
    ELSE BestLoop(rs, i + 1,
                  IF ScoreLess(rs[i], rs[best], max_value) THEN i ELSE best, max_value)

best_score(rs) == BestLoop(rs, 1, 1, MaxDistortion(rs))

(* layout_fn(bounds=bounds, shape=best.shape, **layout_kw) *)
ReshapeRelayout(tried, lay) ==
    [rs |-> lay.rs, results |-> tried.results,
     outcome |-> IF lay.raised THEN "ValueError" ELSE "ok"]

(* best = LayoutResult.best_result(results), and the layout with its shape *)
ReshapeBest(tried, b, kw) ==
    IF tried.outcome # "ok" THEN tried
    ELSE IF MaxDistortion(tried.results) = 0
         THEN [tried EXCEPT !.outcome = "ZeroDivisionError"]
         ELSE ReshapeRelayout(tried,
                  layout_fn(tried.rs, b, 1, tried.results[best_score(tried.results)].shape, kw))

(* strategy == "reshape" *)
reshape(rs, b, kw) ==
    ReshapeBest(ReshapeLoop(rs, <<>>, ReshapeDims(Len(rs), kw).dim_min,
                            ReshapeDims(Len(rs), kw).dim_max, b, kw), b, kw)

(***************************************************************************)
(* The resize search of optimize_layout.  The container shrinks by a       *)
(* fraction of its size, so during the search it is held at ResizeUnit     *)
(* steps per half unit.  kw holds col_wise, hard_bounds_limit, grid_align, *)
(* gutter, whitespace_thr and bounds_adj (both ratios).  tried records,    *)
(* for every layout the search makes, the container it was made in, its    *)
(* whitespace and the cells it gave the rects.                             *)
(***************************************************************************)
ResizeUnit == 1048576

MaxTimes == 20

ScaleRect(r, u) ==
    [r EXCEPT !.left = r.left * u, !.right = r.right * u, !.top = r.top * u,
              !.bottom = r.bottom * u, !.width = r.width * u, !.height = r.height * u]

(* self.col_wise_whitespace if col_wise else self.row_wise_whitespace *)
wise_whitespace(rs, kw) ==
    IF kw.col_wise THEN col_wise_whitespace(rs) ELSE row_wise_whitespace(rs)

(* adjust container bounds by a fixed percentage *)
ShrinkBounds(b, kw) ==
    IF kw.col_wise
    THEN LET bottom == b.bottom + (kw.bounds_adj.num * b.height) \div kw.bounds_adj.den
         IN  [b EXCEPT !.bottom = bottom, !.height = Abs(bottom - b.top)]
    ELSE LET right == b.right - (kw.bounds_adj.num * b.width) \div kw.bounds_adj.den
         IN  [b EXCEPT !.right = right, !.width = right - b.left]

Tried(b, rs, kw) == [bounds |-> b, whitespace |-> wise_whitespace(rs, kw), cells |-> CellsOf(rs)]

(* layout_fn(bounds=best_bounds, shape=None, **layout_kw); return *)
ResizeFallBack(now, back, kw) ==
    [now EXCEPT !.rs = back, !.returned = TRUE,
                !.tried = Append(now.tried, Tried(now.best_bounds, back, kw))]

(* the end of a pass: shrink the container, or fall back to best_bounds    *)
(* when the whitespace got worse; st is the search before the pass, now    *)
(* the search after its layout                                             *)
ResizeBranch(st, now, kw) ==
    IF RatioLeq(now.whitespace, st.whitespace) /\ RatioLeq(now.whitespace, now.best_whitespace)
    THEN [now EXCEPT !.b = ShrinkBounds(st.b, kw)]
    ELSE IF RatioLess(now.best_whitespace, now.whitespace)
         THEN ResizeFallBack(now, layout_fn(now.rs, now.best_bounds, ResizeUnit, <<>>, kw).rs, kw)
         ELSE now

(* ResizeMeasured as it would be if best_bounds followed the container of  *)
(* the latest layout instead of the best one                               *)
ResizeMeasuredKeepsLast(st, lay, ws, kw) ==
    [st EXCEPT !.rs = lay, !.whitespace = ws, !.times = st.times + 1,
               !.best_whitespace = IF RatioLess(ws, st.best_whitespace)
                                   THEN ws ELSE st.best_whitespace,
               !.best_bounds = st.b,
               !.tried = Append(st.tried, Tried(st.b, lay, kw))]

(* the search after the layout lay of a pass, of whitespace ws *)
ResizeMeasured(st, lay, ws, kw) ==
    [st EXCEPT !.rs = lay, !.whitespace = ws, !.times = st.times + 1,
               !.best_whitespace = IF RatioLess(ws, st.best_whitespace)
                                   THEN ws ELSE st.best_whitespace,
               !.best_bounds = IF RatioLess(ws, st.best_whitespace)
                               THEN st.b ELSE st.best_bounds,
               !.tried = Append(st.tried, Tried(st.b, lay, kw))]

ResizeLaidOut(st, lay, kw) ==
    ResizeBranch(st, ResizeMeasured(st, lay, wise_whitespace(lay, kw), kw), kw)

(* one pass of the while loop *)
ResizeStep(st, kw) == ResizeLaidOut(st, layout_fn(st.rs, st.b, ResizeUnit, <<>>, kw).rs, kw)

(* ResizeLoop as it would be if the loop ran for twice as many passes *)
RECURSIVE ResizeLoopTwiceAsLong(_, _)
ResizeLoopTwiceAsLong(st, kw) ==
    IF st.returned \/ ~(RatioLess(kw.whitespace_thr, st.whitespace) /\ st.times < 2 * MaxTimes)
    THEN st
    ELSE ResizeLoopTwiceAsLong(ResizeStep(st, kw), kw)

(* while whitespace > whitespace_thr and times < 20 *)
RECURSIVE ResizeLoop(_, _)
ResizeLoop(st, kw) ==
    IF st.returned \/ ~(RatioLess(kw.whitespace_thr, st.whitespace) /\ st.times < MaxTimes)
    THEN st
    ELSE ResizeLoop(ResizeStep(st, kw), kw)

(* the search after the first layout *)
ResizeStart(lay, ws, b, kw) ==
    [rs |-> lay, b |-> b, whitespace |-> ws, best_whitespace |-> ws,
     best_bounds |-> b, times |-> 0, returned |-> FALSE,
     tried |-> <<Tried(b, lay, kw)>>]

ResizeFirst(lay, b, kw) == ResizeLoop(ResizeStart(lay, wise_whitespace(lay, kw), b, kw), kw)

(* strategy == "resize"; b is the caller's bounds, which the search shrinks *)
resize(rs, b, kw) == ResizeFirst(layout_fn(rs, b, ResizeUnit, <<>>, kw).rs, b, kw)

(***************************************************************************)
(* The state machine of a RectLayout.                                      *)
(*   rects    self.rects                                                   *)
(*   bounds   the caller's bounds Rect as the last call left it            *)
(*   call     the last call and its arguments                              *)
(*   outcome  "ok", or the exception the last call raised                  *)
(*   results  the candidates of the last reshape search                    *)
(*   arranger the ShapeLayoutArranger, where one has been built            *)
(***************************************************************************)
(* the sizes a rect is built with: every positive width and height, and   *)
(* the two degenerate slivers of zero width and of zero height             *)
RectSizes == ((1 .. MaxDim) \X (1 .. MaxDim)) \cup {<<0, 1>>, <<1, 0>>}

RectLists == UNION {[1 .. n -> RectSizes] : n \in 1 .. MaxRects}

BoundSizes == 1 .. MaxBound

(* shape arguments: None, and the (rows, columns) of up to MaxRects + 1 cells *)
Shapes == {<<>>} \cup {s \in (1 .. MaxRects) \X (1 .. MaxRects) : s[1] * s[2] <= MaxRects + 1}

VertAligns == {"top", "centre", "bottom"}

HorzAligns == {"left", "centre", "right"}

NoCall == [op |-> "init"]

(* no ShapeLayoutArranger has been built *)
NoArranger == [solids |-> <<>>]

(* RectLayout(rects) over rects built as Rect(w, h) *)
Init ==
    /\ \E sizes \in RectLists :
          rects = [i \in DOMAIN sizes |-> RectCell(sizes[i][1], sizes[i][2], "left", "top")]
    /\ bounds = Rect(0, 0, FALSE)
    /\ call = NoCall
    /\ outcome = "ok"
    /\ results = <<>>
    /\ arranger = NoArranger

set_vert_align(rs, align) == [i \in DOMAIN rs |-> [rs[i] EXCEPT !.vert_align = align]]

set_horz_align(rs, align) == [i \in DOMAIN rs |-> [rs[i] EXCEPT !.horz_align = align]]

(* rl.layout_row_wise(bounds, shape, hard_bounds_limit, grid_align, gutter) *)
LayoutRowWise(b, shape, hard, grid, gutter) ==
    LET res == layout_row_wise(rects, b, 1, shape, hard, grid, gutter)
    IN  /\ rects' = res.rs
        /\ outcome' = IF res.raised THEN "ValueError" ELSE "ok"
        /\ bounds' = b
        /\ call' = [op |-> "layout_row_wise", shape |-> shape,
                    hard_bounds_limit |-> hard, grid_align |-> grid, gutter |-> gutter]
        /\ UNCHANGED <<results, arranger>>

(* rl.layout_col_wise(bounds, shape, hard_bounds_limit, grid_align, gutter) *)
LayoutColWise(b, shape, hard, grid, gutter) ==
    LET res == layout_col_wise(rects, b, 1, shape, hard, grid, gutter)
    IN  /\ rects' = res.rs
        /\ outcome' = IF res.raised THEN "ValueError" ELSE "ok"
        /\ bounds' = b
        /\ call' = [op |-> "layout_col_wise", shape |-> shape,
                    hard_bounds_limit |-> hard, grid_align |-> grid, gutter |-> gutter]
        /\ UNCHANGED <<results, arranger>>

(***************************************************************************)
(* Spec: one layout call on a fresh RectLayout, over every shape argument  *)
(* and both values of hard_bounds_limit and grid_align.                    *)
(***************************************************************************)
RowWiseCall ==
    /\ call.op = "init"
    /\ \E bs \in BoundSizes, shape \in Shapes, hard \in BOOLEAN, grid \in BOOLEAN :
          LayoutRowWise(Rect(bs, bs, FALSE), shape, hard, grid, 0)

ColWiseCall ==
    /\ call.op = "init"
    /\ \E bs \in BoundSizes, shape \in Shapes, hard \in BOOLEAN, grid \in BOOLEAN :
          LayoutColWise(Rect(bs, bs, FALSE), shape, hard, grid, 0)

Next == RowWiseCall \/ ColWiseCall

Spec == Init /\ [][Next]_vars

(***************************************************************************)
(* SpecReshape: one optimize_layout call with strategy "none" or "reshape" *)
(* on a fresh RectLayout.                                                  *)
(***************************************************************************)
Weights == {<<1, 1>>, <<1, 0>>, <<0, 1>>}

(* full_reshape=False is tried with the default weights *)
ReshapeArgs ==
    {kw \in [col_wise : BOOLEAN, hard_bounds_limit : BOOLEAN, grid_align : {FALSE},
             gutter : {0}, full_reshape : BOOLEAN,
             whitespace_weight : 0 .. 1, distortion_weight : 0 .. 1] :
        /\ <<kw.whitespace_weight, kw.distortion_weight>> \in Weights
        /\ kw.full_reshape \/ <<kw.whitespace_weight, kw.distortion_weight>> = <<1, 1>>}

(* the state a reshape search leaves *)
ReshapeReturns(res, b, kw) ==
    /\ rects' = res.rs
    /\ results' = res.results
    /\ outcome' = res.outcome
    /\ bounds' = b
    /\ call' = [op |-> "optimize_layout", strategy |-> "reshape", kw |-> kw]
    /\ UNCHANGED arranger

(* rl.optimize_layout(bounds, strategy="reshape", **kw) *)
OptimizeReshape(b, kw) ==
    IF ~(Len(rects) > 0)
    THEN /\ call' = [op |-> "optimize_layout", strategy |-> "reshape", kw |-> kw]
         /\ bounds' = b
         /\ UNCHANGED <<rects, outcome, results, arranger>>
    ELSE ReshapeReturns(reshape(rects, b, kw), b, kw)

(* the state a plain layout leaves *)
NoneReturns(lay, b, kw) ==
    /\ rects' = lay.rs
    /\ outcome' = IF lay.raised THEN "ValueError" ELSE "ok"
    /\ bounds' = b
    /\ call' = [op |-> "optimize_layout", strategy |-> "none", kw |-> kw]
    /\ UNCHANGED <<results, arranger>>

(* rl.optimize_layout(bounds, col_wise, hard_bounds_limit): strategy "none" *)
OptimizeNone(b, kw) ==
    IF ~(Len(rects) > 0)
    THEN /\ call' = [op |-> "optimize_layout", strategy |-> "none", kw |-> kw]
         /\ bounds' = b
         /\ UNCHANGED <<rects, outcome, results, arranger>>
    ELSE NoneReturns(layout_fn(rects, b, 1, <<>>, kw), b, kw)

ReshapeCall ==
    /\ call.op = "init"
    /\ \E bw \in BoundSizes, bh \in BoundSizes, kw \in ReshapeArgs :
          OptimizeReshape(Rect(bw, bh, FALSE), kw)

NoneCall ==
    /\ call.op = "init"
    /\ \E bw \in BoundSizes, bh \in BoundSizes, kw \in ReshapeArgs :
          /\ kw.full_reshape /\ kw.whitespace_weight = 1 /\ kw.distortion_weight = 1
          /\ OptimizeNone(Rect(bw, bh, FALSE), kw)

NextReshape == ReshapeCall \/ NoneCall

SpecReshape == Init /\ [][NextReshape]_vars

(***************************************************************************)
(* SpecResize: one optimize_layout call with strategy "resize" on a fresh  *)
(* RectLayout.  bounds and results hold the container at ResizeUnit steps  *)
(* per half unit; results holds the layouts the search tried.              *)
(***************************************************************************)
ResizeArgs ==
    [col_wise : BOOLEAN, hard_bounds_limit : {FALSE}, grid_align : {FALSE}, gutter : {0},
     whitespace_thr : {[num |-> 1, den |-> 4], [num |-> 0, den |-> 1]},
     bounds_adj : {[num |-> 1, den |-> 20], [num |-> 1, den |-> 2]}]

(* the state a resize search leaves: the caller's bounds are the shrunken *)
(* container                                                               *)
ResizeReturns(res, kw) ==
    /\ rects' = res.rs
    /\ results' = res.tried
    /\ outcome' = "ok"
    /\ bounds' = res.b
    /\ call' = [op |-> "optimize_layout", strategy |-> "resize", kw |-> kw]
    /\ UNCHANGED arranger

(* rl.optimize_layout(bounds, strategy="resize", **kw) *)
OptimizeResize(b, kw) ==
    IF ~(Len(rects) > 0)
    THEN /\ call' = [op |-> "optimize_layout", strategy |-> "resize", kw |-> kw]
         /\ bounds' = ScaleRect(b, ResizeUnit)
         /\ UNCHANGED <<rects, outcome, results, arranger>>
    ELSE ResizeReturns(resize(rects, ScaleRect(b, ResizeUnit), kw), kw)

ResizeCall ==
    /\ call.op = "init"
    /\ \E bs \in BoundSizes, kw \in ResizeArgs : OptimizeResize(Rect(bs, bs, FALSE), kw)

NextResize == ResizeCall

SpecResize == Init /\ [][NextResize]_vars

(***************************************************************************)
(* ShapeLayoutArranger.  A solid is held as its size <<x, y, z>> (what     *)
(* size_3d returns for it); None is <<>> and a value v of an attribute     *)
(* that may be None is <<v>>.  Every length is an integer count of steps   *)
(* of 1 / ArrUnit(n), n the number of solids, so that the code's divisions *)
(* by 2, by the number of solids and by the number of gaps are exact.      *)
(***************************************************************************)
ArrUnit(n) == 2 * n * Max2(1, n - 1)

empty_BoundBox ==
    [xmin |-> 0, xmax |-> 0, xlen |-> 0, ymin |-> 0, ymax |-> 0, ylen |-> 0,
     zmin |-> 0, zmax |-> 0, zlen |-> 0]

(* axis.upper() *)
upper(axis) ==
    CASE axis = "x" -> "X" [] axis = "y" -> "Y" [] axis = "z" -> "Z" [] OTHER -> axis

(* the value of an attribute that is not None *)
ValueOf(v) == v[1]

_cache_obj_sizes(a) ==
    IF a._obj_sizes = <<>> THEN [a EXCEPT !._obj_sizes = a.solids] ELSE a

(* the six side margins after the loop over the unassigned ones *)
DefaultSideMargins(a) ==
    [a EXCEPT !.left_margin = IF @ = <<>> THEN <<a.margin>> ELSE @,
              !.right_margin = IF @ = <<>> THEN <<a.margin>> ELSE @,
              !.back_margin = IF @ = <<>> THEN <<a.margin>> ELSE @,
              !.top_margin = IF @ = <<>> THEN <<a.margin>> ELSE @,
              !.front_margin = IF @ = <<>> THEN <<a.margin>> ELSE @,
              !.bottom_margin = IF @ = <<>> THEN <<a.margin>> ELSE @]

(* x_margin, y_margin and z_margin override the two sides of their axis *)
AxisMargins(a) ==
    [a EXCEPT !.left_margin = IF a.x_margin # <<>> THEN a.x_margin ELSE @,
              !.right_margin = IF a.x_margin # <<>> THEN a.x_margin ELSE @,
              !.front_margin = IF a.y_margin # <<>> THEN a.y_margin ELSE @,
              !.back_margin = IF a.y_margin # <<>> THEN a.y_margin ELSE @,
              !.top_margin = IF a.z_margin # <<>> THEN a.z_margin ELSE @,
              !.bottom_margin = IF a.z_margin # <<>> THEN a.z_margin ELSE @]

_assign_margins(a) == AxisMargins(DefaultSideMargins(a))

(* one end of the inset along an axis: the bound moved inwards by step, or *)
(* the fixed value of the axis                                             *)
InsetEnd(bound, fixed, step) == IF fixed = <<>> THEN bound + step ELSE ValueOf(fixed)

(* the inset of an arranger whose sizes are cached and margins assigned *)
InsetOf(a) ==
    [xmin |-> InsetEnd(a.bounds.xmin, a.fixed_x, ValueOf(a.left_margin)),
     xmax |-> InsetEnd(a.bounds.xmax, a.fixed_x, 0 - ValueOf(a.right_margin)),
     xlen |-> InsetEnd(a.bounds.xmax, a.fixed_x, 0 - ValueOf(a.right_margin))
                - InsetEnd(a.bounds.xmin, a.fixed_x, ValueOf(a.left_margin)),
     ymin |-> InsetEnd(a.bounds.ymin, a.fixed_y, ValueOf(a.front_margin)),
     ymax |-> InsetEnd(a.bounds.ymax, a.fixed_y, 0 - ValueOf(a.back_margin)),
     ylen |-> InsetEnd(a.bounds.ymax, a.fixed_y, 0 - ValueOf(a.back_margin))
                - InsetEnd(a.bounds.ymin, a.fixed_y, ValueOf(a.front_margin)),
     zmin |-> InsetEnd(a.bounds.zmin, a.fixed_z, ValueOf(a.top_margin)),
     zmax |-> InsetEnd(a.bounds.zmax, a.fixed_z, 0 - ValueOf(a.bottom_margin)),
     zlen |-> InsetEnd(a.bounds.zmax, a.fixed_z, 0 - ValueOf(a.bottom_margin))
                - InsetEnd(a.bounds.zmin, a.fixed_z, ValueOf(a.top_margin))]

(* SetInset as it would be if the margins were taken from the inset as it  *)
(* stands instead of from the bounds                                       *)
SetInsetCumulative(a) == [a EXCEPT !.inset = InsetOf([a EXCEPT !.bounds = a.inset])]

SetInset(a) == [a EXCEPT !.inset = InsetOf(a)]

_compute_inset(a) == SetInset(_assign_margins(_cache_obj_sizes(a)))

(* sum(s[idx] for s in sizes), idx counted from 0 *)
RECURSIVE SizeSum(_, _)
SizeSum(sizes, idx) ==
    IF sizes = <<>> THEN 0 ELSE Head(sizes)[idx + 1] + SizeSum(Tail(sizes), idx)

(* obj_xlen, obj_ylen, obj_zlen (and the same sums as obj_width, ...) *)
obj_xlen(a) == SizeSum(_cache_obj_sizes(a)._obj_sizes, 0)

obj_ylen(a) == SizeSum(_cache_obj_sizes(a)._obj_sizes, 1)

obj_zlen(a) == SizeSum(_cache_obj_sizes(a)._obj_sizes, 2)

(* x_avail, y_avail, z_avail: the inset is computed afresh first *)
x_avail(a) == _compute_inset(a).inset.xlen - obj_xlen(a)

y_avail(a) == _compute_inset(a).inset.ylen - obj_ylen(a)

z_avail(a) == _compute_inset(a).inset.zlen - obj_zlen(a)

(* gap_count as it would be if there were a gap for every solid *)
gap_count_per_solid(a) == Max2(1, Len(a.solids))

gap_count(a) == Max2(1, Len(a.solids) - 1)

x_gap(a) == x_avail(a) \div gap_count(a)

y_gap(a) == y_avail(a) \div gap_count(a)

z_gap(a) == z_avail(a) \div gap_count(a)

(* x_equal, y_equal, z_equal read the inset as it stands *)
x_equal(a) == a.inset.xlen \div Max2(1, Len(a.solids))

y_equal(a) == a.inset.ylen \div Max2(1, Len(a.solids))

z_equal(a) == a.inset.zlen \div Max2(1, Len(a.solids))

(* inset_len, inset_min, axis_idx and align (axis_align here), of an upper *)
(* case axis                                                               *)
inset_len(a, axis) ==
    CASE axis = "X" -> a.inset.xlen [] axis = "Y" -> a.inset.ylen [] axis = "Z" -> a.inset.zlen

inset_min(a, axis) ==
    CASE axis = "X" -> a.inset.xmin [] axis = "Y" -> a.inset.ymin [] axis = "Z" -> a.inset.zmin

axis_idx(axis) ==
    CASE upper(axis) = "X" -> 0 [] upper(axis) = "Y" -> 1 [] upper(axis) = "Z" -> 2

axis_align(a, axis) ==
    CASE axis = "X" -> a.x_align [] axis = "Y" -> a.y_align [] axis = "Z" -> a.z_align

(* all([s[idx] <= size for s in self._obj_sizes]) *)
AllFit(a, idx, size) == \A i \in DOMAIN a._obj_sizes : a._obj_sizes[i][idx + 1] <= size

(* enough_space(axis): the value returned *)
enough_space(a, axis) ==
    IF a.method = "equal_spaced"
    THEN CASE upper(axis) = "X" -> x_avail(a) >= obj_xlen(a)
           [] upper(axis) = "Y" -> y_avail(a) >= obj_ylen(a)
           [] upper(axis) = "Z" -> z_avail(a) >= obj_zlen(a)
           [] OTHER -> FALSE
    ELSE IF a.method = "periodic"
    THEN CASE upper(axis) = "X" -> AllFit(a, 0, x_equal(a))
           [] upper(axis) = "Y" -> AllFit(a, 1, y_equal(a))
           [] upper(axis) = "Z" -> AllFit(a, 2, z_equal(a))
           [] OTHER -> FALSE
    ELSE FALSE

(* the arranger after enough_space(axis): the equal_spaced branch computes *)
(* the inset afresh (x_avail), the periodic branch changes nothing         *)
AfterEnoughSpace(a, axis) ==
    IF a.method = "equal_spaced" /\ upper(axis) \in {"X", "Y", "Z"}
    THEN _compute_inset(a)
    ELSE a

_align_max(align) == align \in {"right", "max", "top", "back"}

_align_min(align) == align \in {"left", "front", "bottom", "min"}

_align_ctr(align) == align \in {"centre", "center"}

(* the loops count i from 0; sequences here are indexed from 1 *)
_min_aligned(a, vmin, size, idx) ==
    [i \in DOMAIN a._obj_sizes |-> vmin + (i - 1) * size + a._obj_sizes[i][idx + 1] \div 2]

_max_aligned(a, vmin, size, idx) ==
    [i \in DOMAIN a._obj_sizes |-> vmin + i * size - a._obj_sizes[i][idx + 1] \div 2]

_ctr_aligned(a, vmin, size) ==
    [i \in DOMAIN a._obj_sizes |-> vmin + (i - 1) * size + size \div 2]

(* the loop of _equal_spaced over the sizes left, v the running position *)
RECURSIVE EqualSpacedLoop(_, _, _, _)
EqualSpacedLoop(sizes, v, gap, idx) ==
    IF sizes = <<>>
    THEN <<>>
    ELSE <<v + Head(sizes)[idx + 1] \div 2>>
            \o EqualSpacedLoop(Tail(sizes), v + gap + Head(sizes)[idx + 1], gap, idx)

_equal_spaced(a, vmin, gap, idx) == EqualSpacedLoop(a._obj_sizes, vmin, gap, idx)

(* obj_coords(axis): X, then Y, and every other axis is taken as Z.  The   *)
(* Z branch tests _align_max in both of its conditions.                    *)
obj_coords(a, axis) ==
    IF upper(axis) = "X"
    THEN IF a.method = "periodic"
         THEN IF _align_max(a.x_align) THEN _max_aligned(a, a.inset.xmin, x_equal(a), 0)
              ELSE IF _align_min(a.x_align) THEN _min_aligned(a, a.inset.xmin, x_equal(a), 0)
              ELSE _ctr_aligned(a, a.inset.xmin, x_equal(a))
         ELSE _equal_spaced(a, a.inset.xmin, x_gap(a), 0)
    ELSE IF upper(axis) = "Y"
    THEN IF a.method = "periodic"
         THEN IF _align_max(a.y_align) THEN _max_aligned(a, a.inset.ymin, y_equal(a), 1)
              ELSE IF _align_min(a.y_align) THEN _min_aligned(a, a.inset.ymin, y_equal(a), 1)
              ELSE _ctr_aligned(a, a.inset.ymin, y_equal(a))
         ELSE _equal_spaced(a, a.inset.ymin, y_gap(a), 1)
    ELSE IF a.method = "periodic"
         THEN IF _align_max(a.z_align) THEN _max_aligned(a, a.inset.zmin, z_equal(a), 2)
              ELSE IF _align_max(a.z_align) THEN _min_aligned(a, a.inset.zmin, z_equal(a), 2)
              ELSE _ctr_aligned(a, a.inset.zmin, z_equal(a))
         ELSE _equal_spaced(a, a.inset.zmin, z_gap(a), 2)

(* the arranger after obj_coords(axis): x_gap computes the inset afresh *)
AfterObjCoords(a, axis) == IF a.method = "periodic" THEN a ELSE _compute_inset(a)

(* ShapeLayoutArranger(solids, bounds, **kw): the attributes as __init__   *)
(* sets them, overwritten by the keywords, bounds from a flat tuple, and   *)
(* the inset computed                                                      *)
ShapeLayoutArranger(solids, bounds_tuple, kw) ==
    _compute_inset(
        [solids |-> solids,
         bounds |-> [empty_BoundBox EXCEPT !.xmin = bounds_tuple[1], !.xmax = bounds_tuple[2],
                                           !.ymin = bounds_tuple[3], !.ymax = bounds_tuple[4],
                                           !.zmin = bounds_tuple[5], !.zmax = bounds_tuple[6]],
         inset |-> empty_BoundBox,
         margin |-> kw.margin,
         x_margin |-> kw.x_margin, y_margin |-> kw.y_margin, z_margin |-> kw.z_margin,
         left_margin |-> kw.left_margin, right_margin |-> kw.right_margin,
         front_margin |-> kw.front_margin, back_margin |-> kw.back_margin,
         top_margin |-> kw.top_margin, bottom_margin |-> kw.bottom_margin,
         method |-> kw.method,
         x_align |-> kw.x_align, y_align |-> kw.y_align, z_align |-> kw.z_align,
         fixed_x |-> <<>>, fixed_y |-> <<>>, fixed_z |-> <<>>,
         _obj_sizes |-> <<>>, _sizes |-> <<>>, _coords |-> <<>>])

(* x_pos, y_pos, z_pos: the coordinate of a solid of a size on an axis it  *)
(* is not spread along, obeying the alignment of the axis                  *)
x_pos(a, size) ==
    IF _align_max(a.x_align) THEN a.inset.xmax - size[1] \div 2
    ELSE IF _align_min(a.x_align) THEN a.inset.xmin + size[1] \div 2
    ELSE a.inset.xmin + a.inset.xlen \div 2

y_pos(a, size) ==
    IF _align_max(a.y_align) THEN a.inset.ymax - size[2] \div 2
    ELSE IF _align_min(a.y_align) THEN a.inset.ymin + size[2] \div 2
    ELSE a.inset.ymin + a.inset.ylen \div 2

z_pos(a, size) ==
    IF _align_max(a.z_align) THEN a.inset.zmax - size[3] \div 2
    ELSE IF _align_min(a.z_align) THEN a.inset.zmin + size[3] \div 2
    ELSE a.inset.zmin + a.inset.zlen \div 2

(* A dim argument is held as the sequence of its characters.               *)
upper_str(dim) == [i \in DOMAIN dim |-> upper(dim[i])]

(* ch in dim *)
InStr(ch, dim) == \E i \in DOMAIN dim : dim[i] = ch

(* c.isdigit() *)
IsDigit(c) == c \in {"0", "1", "2", "3", "4", "5", "6", "7", "8", "9"}

DigitVal(c) ==
    CASE c = "0" -> 0 [] c = "1" -> 1 [] c = "2" -> 2 [] c = "3" -> 3 [] c = "4" -> 4
      [] c = "5" -> 5 [] c = "6" -> 6 [] c = "7" -> 7 [] c = "8" -> 8 [] c = "9" -> 9

(* the number that a string of digits writes *)
RECURSIVE DigitsVal(_)
DigitsVal(s) ==
    IF s = <<>> THEN 0 ELSE DigitsVal(SubSeq(s, 1, Len(s) - 1)) * 10 + DigitVal(s[Len(s)])

(* the place of the first ch in s, Len(s) + 1 where there is none *)
FirstPlace(ch, s) ==
    IF InStr(ch, s) THEN CHOOSE i \in DOMAIN s : s[i] = ch /\ \A j \in 1 .. i - 1 : s[j] # ch
    ELSE Len(s) + 1

(* s.split(sep) *)
RECURSIVE Split(_, _)
Split(s, sep) ==
    IF ~InStr(sep, s) THEN <<s>>
    ELSE <<SubSeq(s, 1, FirstPlace(sep, s) - 1)>>
             \o Split(SubSeq(s, FirstPlace(sep, s) + 1, Len(s)), sep)

(* sorted(pairs, key=lambda x: x[1], reverse=rev): a stable sort, with     *)
(* reverse too; InsertSorted puts the pair p behind every pair that does   *)
(* not come after it                                                       *)
RECURSIVE InsertSorted(_, _, _)
InsertSorted(p, s, rev) ==
    IF s = <<>> THEN <<p>>
    ELSE IF (IF rev THEN Head(s)[2] >= p[2] ELSE Head(s)[2] <= p[2])
    THEN <<Head(s)>> \o InsertSorted(p, Tail(s), rev)
    ELSE <<p>> \o s

RECURSIVE sorted(_, _)
sorted(pairs, rev) ==
    IF pairs = <<>> THEN <<>>
    ELSE InsertSorted(pairs[Len(pairs)], sorted(SubSeq(pairs, 1, Len(pairs) - 1), rev), rev)

(* the index of the size that obj_sort_dim sorts by *)
SortIdx(dim) == IF InStr("X", dim) THEN 0 ELSE IF InStr("Y", dim) THEN 1 ELSE 2

(* zip(self.solids, dv) *)
SortPairs(a, idx) == [i \in DOMAIN a.solids |-> <<a.solids[i], a._obj_sizes[i][idx + 1]>>]

Firsts(pairs) == [i \in DOMAIN pairs |-> pairs[i][1]]

(* obj_sort_dim as it would be if a "-" in dim were ignored *)
obj_sort_dim_ascending(a, dim) ==
    [a EXCEPT !.solids = Firsts(sorted(SortPairs(a, SortIdx(upper_str(dim))), FALSE)),
              !._obj_sizes = <<>>]

(* obj_sort_dim(dim) of an arranger whose sizes are cached: the solids are *)
(* put in the sorted order and the cache of sizes is dropped               *)
obj_sort_dim(a, dim) ==
    [a EXCEPT !.solids = Firsts(sorted(SortPairs(a, SortIdx(upper_str(dim))),
                                       InStr("-", upper_str(dim)))),
              !._obj_sizes = <<>>]

(* the pre-transform keywords of a layout call *)
PreKw(sort_dim, sort_area, sort_vol, alt_rotate) ==
    [sort_dim |-> sort_dim, sort_area |-> sort_area, sort_vol |-> sort_vol,
     alt_rotate |-> alt_rotate]

(* zip(self.solids, dv) for the values dv *)
ZipValues(a, dv) == [i \in DOMAIN a.solids |-> <<a.solids[i], dv[i]>>]

(* the products that obj_sort_area sorts by *)
AreaValues(a, dim) ==
    [i \in DOMAIN a._obj_sizes |->
        IF InStr("X", dim) /\ InStr("Y", dim) THEN a._obj_sizes[i][1] * a._obj_sizes[i][2]
        ELSE IF InStr("Y", dim) /\ InStr("Z", dim) THEN a._obj_sizes[i][2] * a._obj_sizes[i][3]
        ELSE a._obj_sizes[i][1] * a._obj_sizes[i][3]]

(* obj_sort_area(dim) of an arranger whose sizes are cached *)
obj_sort_area(a, dim) ==
    [a EXCEPT !.solids = Firsts(sorted(ZipValues(a, AreaValues(a, upper_str(dim))),
                                       InStr("-", upper_str(dim)))),
              !._obj_sizes = <<>>]

VolValues(a) ==
    [i \in DOMAIN a._obj_sizes |->
        a._obj_sizes[i][1] * a._obj_sizes[i][2] * a._obj_sizes[i][3]]

(* obj_sort_vol(dim) of an arranger whose sizes are cached; dim is not     *)
(* put in upper case                                                       *)
obj_sort_vol(a, dim) ==
    [a EXCEPT !.solids = Firsts(sorted(ZipValues(a, VolValues(a)), InStr("-", dim))),
              !._obj_sizes = <<>>]

(* the size of a solid turned by angle degrees about an axis through the   *)
(* origin (rotate_x, rotate_y, rotate_z): a half turn keeps it, a quarter  *)
(* turn swaps the two sizes across the axis; the angles drawn are whole    *)
(* quarter turns                                                           *)
Turned(size, axis, angle) ==
    IF angle % 180 = 0 THEN size
    ELSE CASE axis = "X" -> <<size[1], size[3], size[2]>>
           [] axis = "Y" -> <<size[3], size[2], size[1]>>
           [] axis = "Z" -> <<size[2], size[1], size[3]>>

(* dim and angle of obj_alt_rotate after dim.upper() and dim.split(): the  *)
(* items of the strings drawn are one space apart, and the angle is a      *)
(* whole number of degrees                                                 *)
AltRotateAxis(dim) ==
    IF Len(Split(upper_str(dim), " ")) > 1 THEN Split(upper_str(dim), " ")[1]
    ELSE upper_str(dim)

AltRotateAngle(dim) ==
    IF Len(Split(upper_str(dim), " ")) > 1 THEN DigitsVal(Split(upper_str(dim), " ")[2])
    ELSE 180

(* obj_alt_rotate(dim): every second solid (i % 2, counted from 0) is      *)
(* turned when dim names an axis, and the cache of sizes is dropped        *)
obj_alt_rotate(a, dim) ==
    [a EXCEPT !.solids =
                 [i \in DOMAIN a.solids |->
                     IF (i - 1) % 2 = 1 /\ AltRotateAxis(dim) \in {<<"X">>, <<"Y">>, <<"Z">>}
                     THEN Turned(a.solids[i], AltRotateAxis(dim)[1], AltRotateAngle(dim))
                     ELSE a.solids[i]],
              !._obj_sizes = <<>>]

(* The steps of apply_pre_transforms(self, **kw); a keyword of kw is <<>>  *)
(* where it is left out.  st.a is the arranger so far and st.raised says   *)
(* that a step has raised: each sort iterates over self._obj_sizes, a      *)
(* TypeError when it is None.                                              *)
PreSortDim(st, kw) ==
    IF st.raised \/ kw.sort_dim = <<>> THEN st
    ELSE IF st.a._obj_sizes = <<>> THEN [st EXCEPT !.raised = TRUE]
    ELSE [st EXCEPT !.a = obj_sort_dim(st.a, kw.sort_dim[1])]

PreSortArea(st, kw) ==
    IF st.raised \/ kw.sort_area = <<>> THEN st
    ELSE IF st.a._obj_sizes = <<>> THEN [st EXCEPT !.raised = TRUE]
    ELSE [st EXCEPT !.a = obj_sort_area(st.a, kw.sort_area[1])]

PreSortVol(st, kw) ==
    IF st.raised \/ kw.sort_vol = <<>> THEN st
    ELSE IF st.a._obj_sizes = <<>> THEN [st EXCEPT !.raised = TRUE]
    ELSE [st EXCEPT !.a = obj_sort_vol(st.a, kw.sort_vol[1])]

PreAltRotate(st, kw) ==
    IF st.raised \/ kw.alt_rotate = <<>> THEN st
    ELSE [st EXCEPT !.a = obj_alt_rotate(st.a, kw.alt_rotate[1])]

PreTransformed(a, kw) ==
    PreAltRotate(PreSortVol(PreSortArea(PreSortDim([a |-> a, raised |-> FALSE], kw), kw), kw), kw)

(* the arranger that apply_pre_transforms leaves, also where it raises *)
apply_pre_transforms(a, kw) == PreTransformed(a, kw).a

(* TRUE where apply_pre_transforms raises *)
PreTransformsRaise(a, kw) == PreTransformed(a, kw).raised

(* the coordinates of solid i: x_pos, y_pos, z_pos, with the coordinate on *)
(* the axis of the layout replaced by loc                                  *)
PlaceAt(a, axis, size, loc) ==
    <<IF upper(axis) = "X" THEN loc ELSE x_pos(a, size),
      IF upper(axis) = "X" THEN y_pos(a, size)
      ELSE IF upper(axis) = "Y" THEN loc ELSE y_pos(a, size),
      IF upper(axis) = "X" \/ upper(axis) = "Y" THEN z_pos(a, size) ELSE loc>>

(* the loop of layout_wise over zip(solids, _obj_sizes, locs) *)
Placed(a, axis, locs) ==
    [i \in DOMAIN a.solids |-> PlaceAt(a, axis, a._obj_sizes[i], locs[i])]

(* the end of layout_wise: the fixed values are reset, the coordinates and *)
(* sizes stored and returned                                               *)
WiseReturns(a, coords) ==
    [a |-> [a EXCEPT !.fixed_x = <<>>, !.fixed_y = <<>>, !.fixed_z = <<>>,
                     !._coords = coords, !._sizes = a._obj_sizes],
     coords |-> coords, sizes |-> a._obj_sizes, outcome |-> "ok"]

(* layout_wise from the computed inset on *)
WiseLaidOut(a, axis) ==
    WiseReturns(AfterObjCoords(a, axis), Placed(AfterObjCoords(a, axis), axis, obj_coords(a, axis)))

(* layout_wise(axis, **kw): the arranger it leaves, the coordinates and    *)
(* sizes it returns (the objects returned are the solids moved to the      *)
(* coordinates), or the exception it raises                                *)
layout_wise(a, axis, kw) ==
    IF PreTransformsRaise(a, kw)
    THEN [a |-> apply_pre_transforms(a, kw), coords |-> <<>>, sizes |-> <<>>,
          outcome |-> "TypeError"]
    ELSE WiseLaidOut(_compute_inset(apply_pre_transforms(a, kw)), axis)

layout_x_wise(a, at_y, at_z, kw) ==
    layout_wise([a EXCEPT !.fixed_y = at_y, !.fixed_z = at_z], "X", kw)

layout_y_wise(a, at_x, at_z, kw) ==
    layout_wise([a EXCEPT !.fixed_x = at_x, !.fixed_z = at_z], "Y", kw)

layout_z_wise(a, at_x, at_y, kw) ==
    layout_wise([a EXCEPT !.fixed_x = at_x, !.fixed_y = at_y], "Z", kw)

(***************************************************************************)
(* SpecArr: a ShapeLayoutArranger is built over a list of solids, and one  *)
(* query (enough_space or obj_coords) is made of it.  results holds the    *)
(* value the query returned.                                               *)
(***************************************************************************)
(* the sizes of the solids, in whole units *)
SolidSizes ==
    {s \in (1 .. MaxDim) \X (1 .. MaxDim) \X (1 .. MaxDim) : s[1] + s[2] + s[3] = MaxDim + 2}

SolidLists == UNION {[1 .. n -> SolidSizes] : n \in 1 .. MaxRects}

(* the bounds are the flat tuple (0, l, -l, l, 1, l + 1) *)
BoxSizes == {MaxBound, 4 * MaxBound}

BoundsTuple(l) == <<0, l, 0 - l, l, 1, l + 1>>

(* a margin keyword: left out, or 2 *)
MarginOption == {<<>>, <<2>>}

(* the margin keywords of a call: margin is 0 (as when left out) or 1, and *)
(* at most one of the other keywords is given                              *)
MarginArgs ==
    {m \in [margin : 0 .. 1, x_margin : MarginOption, z_margin : MarginOption,
            left_margin : MarginOption, back_margin : MarginOption,
            top_margin : MarginOption] :
        Cardinality({k \in {"x_margin", "z_margin", "left_margin", "back_margin", "top_margin"} :
                        m[k] # <<>>}) <= 1}

Methods == {"equal_spaced", "periodic"}

(* x_align, y_align, z_align *)
AlignArgs ==
    {<<"centre", "centre", "centre">>, <<"left", "front", "bottom">>,
     <<"right", "back", "top">>, <<"min", "min", "min">>, <<"max", "max", "max">>}

Axes == {"X", "Y", "Z", "x", "y", "z"}

(* a list of whole numbers in steps of 1 / unit *)
Scaled(t, unit) == [i \in DOMAIN t |-> t[i] * unit]

(* a pair of values that may be None, in steps of 1 / unit *)
Scaled2(at, unit) == <<Scaled(at[1], unit), Scaled(at[2], unit)>>

ScaledSolids(sizes, unit) == [i \in DOMAIN sizes |-> Scaled(sizes[i], unit)]

(* the keywords of the constructor *)
ArrangerArgs(m, method, al, unit) ==
    [margin |-> m.margin * unit,
     x_margin |-> Scaled(m.x_margin, unit), y_margin |-> <<>>,
     z_margin |-> Scaled(m.z_margin, unit),
     left_margin |-> Scaled(m.left_margin, unit), right_margin |-> <<>>,
     front_margin |-> <<>>, back_margin |-> Scaled(m.back_margin, unit),
     top_margin |-> Scaled(m.top_margin, unit), bottom_margin |-> <<>>,
     method |-> method, x_align |-> al[1], y_align |-> al[2], z_align |-> al[3]]

Built(solids, bounds_tuple, kw) ==
    /\ arranger = ShapeLayoutArranger(solids, bounds_tuple, kw)
    /\ call = [op |-> "ShapeLayoutArranger", bounds |-> bounds_tuple, kw |-> kw]

InitArr ==
    /\ rects = <<>>
    /\ bounds = Rect(0, 0, FALSE)
    /\ outcome = "ok"
    /\ results = <<>>
    /\ \E sizes \in SolidLists, l \in BoxSizes, m \in MarginArgs, method \in Methods,
          al \in AlignArgs :
          Built(ScaledSolids(sizes, ArrUnit(Len(sizes))),
                Scaled(BoundsTuple(l), ArrUnit(Len(sizes))),
                ArrangerArgs(m, method, al, ArrUnit(Len(sizes))))

(* arranger.enough_space(axis) *)
EnoughSpace(axis) ==
    /\ results' = enough_space(arranger, axis)
    /\ arranger' = AfterEnoughSpace(arranger, axis)
    /\ call' = [op |-> "enough_space", axis |-> axis, bounds |-> call.bounds, kw |-> call.kw,
                prev |-> call]
    /\ UNCHANGED <<rects, bounds, outcome>>

(* arranger.obj_coords(axis) *)
ObjCoords(axis) ==
    /\ results' = obj_coords(arranger, axis)
    /\ arranger' = AfterObjCoords(arranger, axis)
    /\ call' = [op |-> "obj_coords", axis |-> axis, bounds |-> call.bounds, kw |-> call.kw,
                prev |-> call]
    /\ UNCHANGED <<rects, bounds, outcome>>

EnoughSpaceCall ==
    /\ call.op = "ShapeLayoutArranger"
    /\ \E axis \in Axes : EnoughSpace(axis)

ObjCoordsCall ==
    /\ call.op = "ShapeLayoutArranger"
    /\ \E axis \in Axes : ObjCoords(axis)

NextArr == EnoughSpaceCall \/ ObjCoordsCall

SpecArr == InitArr /\ [][NextArr]_vars

(***************************************************************************)
(* SpecWise: a ShapeLayoutArranger is built and up to MaxCalls calls are   *)
(* made of it: layout_x_wise, layout_y_wise and layout_z_wise, with and    *)
(* without fixed coordinates and sort_dim, and the enough_space and        *)
(* x_avail / y_avail / z_avail queries.  results holds what the last call  *)
(* returned; call.prev is the call before it and call.solids_before the    *)
(* solids as the last call found them.                                     *)
(***************************************************************************)
WiseBox == 4 * MaxBound

WiseAligns ==
    {<<"centre", "centre", "centre">>, <<"left", "front", "bottom">>, <<"right", "back", "top">>}

(* the two at_ arguments of a layout call: none, the first, or both (in    *)
(* whole units)                                                            *)
AtArgs == {<<<<>>, <<>>>>, <<<<1>>, <<>>>>, <<<<1>>, <<2>>>>}

(* sort_dim: left out, "X", or "-z" *)
SortDims == {<<>>, <<<<"X">>>>, <<<<"-", "z">>>>}

InitWise ==
    /\ rects = <<>>
    /\ bounds = Rect(0, 0, FALSE)
    /\ outcome = "ok"
    /\ results = <<>>
    /\ \E sizes \in SolidLists, m \in MarginArgs, method \in Methods, al \in WiseAligns :
          /\ \A k \in {"x_margin", "z_margin", "left_margin", "back_margin", "top_margin"} :
                m[k] = <<>>
          /\ Built(ScaledSolids(sizes, ArrUnit(Len(sizes))),
                   Scaled(BoundsTuple(WiseBox), ArrUnit(Len(sizes))),
                   ArrangerArgs(m, method, al, ArrUnit(Len(sizes))))

(* the number of calls made of the arranger *)
CallsMade ==
    IF call.op = "ShapeLayoutArranger" THEN 0
    ELSE IF call.prev.op = "ShapeLayoutArranger" THEN 1
    ELSE 2

(* the state a layout call leaves *)
WiseCallReturns(res, op, axis, at, args) ==
    /\ arranger' = res.a
    /\ results' = [coords |-> res.coords, sizes |-> res.sizes]
    /\ outcome' = res.outcome
    /\ call' = [op |-> op, axis |-> axis, at |-> at, args |-> args, bounds |-> call.bounds,
                kw |-> call.kw, prev |-> call, solids_before |-> arranger.solids]
    /\ UNCHANGED <<rects, bounds>>

(* arranger.layout_x_wise(at_y, at_z, sort_dim) *)
LayoutXWise(at, args) ==
    WiseCallReturns(layout_x_wise(arranger, at[1], at[2], args), "layout_x_wise", "X", at, args)

(* arranger.layout_y_wise(at_x, at_z, sort_dim) *)
LayoutYWise(at, args) ==
    WiseCallReturns(layout_y_wise(arranger, at[1], at[2], args), "layout_y_wise", "Y", at, args)

(* arranger.layout_z_wise(at_x, at_y, sort_dim) *)
LayoutZWise(at, args) ==
    WiseCallReturns(layout_z_wise(arranger, at[1], at[2], args), "layout_z_wise", "Z", at, args)

(* arranger.x_avail, y_avail or z_avail *)
Avail(axis) ==
    /\ results' = (CASE axis = "X" -> x_avail(arranger)
                     [] axis = "Y" -> y_avail(arranger)
                     [] axis = "Z" -> z_avail(arranger))
    /\ arranger' = _compute_inset(arranger)
    /\ call' = [op |-> "avail", axis |-> axis, bounds |-> call.bounds, kw |-> call.kw,
                prev |-> call]
    /\ UNCHANGED <<rects, bounds, outcome>>

LayoutXWiseCall ==
    /\ CallsMade < MaxCalls
    /\ \E at \in AtArgs, sort_dim \in SortDims :
          LayoutXWise(Scaled2(at, ArrUnit(Len(arranger.solids))), PreKw(sort_dim, <<>>, <<>>, <<>>))

LayoutYWiseCall ==
    /\ CallsMade < MaxCalls
    /\ \E at \in AtArgs, sort_dim \in SortDims :
          LayoutYWise(Scaled2(at, ArrUnit(Len(arranger.solids))), PreKw(sort_dim, <<>>, <<>>, <<>>))

LayoutZWiseCall ==
    /\ CallsMade < MaxCalls
    /\ \E at \in AtArgs, sort_dim \in SortDims :
          LayoutZWise(Scaled2(at, ArrUnit(Len(arranger.solids))), PreKw(sort_dim, <<>>, <<>>, <<>>))

WiseEnoughSpaceCall ==
    /\ CallsMade < MaxCalls
    /\ \E axis \in {"X", "Y", "Z"} : EnoughSpace(axis)

AvailCall ==
    /\ CallsMade < MaxCalls
    /\ \E axis \in {"X", "Y", "Z"} : Avail(axis)

NextWise ==
    LayoutXWiseCall \/ LayoutYWiseCall \/ LayoutZWiseCall \/ WiseEnoughSpaceCall \/ AvailCall

SpecWise == InitWise /\ [][NextWise]_vars

(***************************************************************************)
(* GridLayoutArranger: a ShapeLayoutArranger with a plane (held as the     *)
(* sequence of its two characters), paddings, grid_align and global        *)
(* alignments.  Its lengths are held in steps of 1 / GridUnit; the rects   *)
(* of its RectLayout are held, like every Rect, in halves of that.         *)
(***************************************************************************)
GridUnit == 4

(* the attributes GridLayoutArranger.__init__ sets before the attributes   *)
(* of ShapeLayoutArranger                                                  *)
GridAttributes(a, plane) ==
    [k \in DOMAIN a \cup {"x_padding", "y_padding", "z_padding", "plane", "grid_align",
                          "global_x_align", "global_y_align", "global_z_align"} |->
        CASE k \in {"x_padding", "y_padding", "z_padding"} -> 0
          [] k = "plane" -> plane
          [] k = "grid_align" -> TRUE
          [] k \in {"global_x_align", "global_y_align", "global_z_align"} -> "centre"
          [] OTHER -> a[k]]

GridLayoutArranger(solids, bounds_tuple, kw) ==
    GridAttributes(ShapeLayoutArranger(solids, bounds_tuple, kw), kw.plane)

major(a) == upper(a.plane[1])

minor(a) == upper(a.plane[2])

padding(a, axis) ==
    CASE axis = "X" -> a.x_padding [] axis = "Y" -> a.y_padding [] axis = "Z" -> a.z_padding

(* bound_rect: a Rect of the inset lengths with its bottom left corner at  *)
(* the inset minimum                                                       *)
bound_rect(a) ==
    move_bottom_left_to(Rect(inset_len(a, major(a)), inset_len(a, minor(a)), FALSE),
                        2 * inset_min(a, major(a)), 2 * inset_min(a, minor(a)))

(* rects_from_objs, as the RectCells that RectLayout makes of them *)
rects_from_objs(a) ==
    [i \in DOMAIN a._obj_sizes |->
        RectCell(a._obj_sizes[i][axis_idx(major(a)) + 1] + padding(a, major(a)),
                 a._obj_sizes[i][axis_idx(minor(a)) + 1] + padding(a, minor(a)),
                 "left", "top")]

(* align.replace(old, new): no alignment word holds another one *)
replace(align, old, new) == IF align = old THEN new ELSE align

_vert_align(align) ==
    replace(replace(replace(replace(align, "min", "bottom"), "max", "top"),
                    "left", "bottom"), "right", "top")

_horz_align(align) ==
    replace(replace(replace(replace(align, "min", "left"), "max", "right"),
                    "bottom", "left"), "top", "right")

move_by(r, x, y) ==
    [r EXCEPT !.left = @ + x, !.right = @ + x, !.top = @ + y, !.bottom = @ + y]

(* Rect.get_centre *)
get_centre(r) ==
    <<r.left + r.width \div 2,
      IF r.bottom_up THEN r.top + r.height \div 2 ELSE r.top - r.height \div 2>>

(* the global alignment of an axis *)
global_align(a, axis) ==
    CASE axis = "X" -> a.global_x_align
      [] axis = "Y" -> a.global_y_align
      [] OTHER -> a.global_z_align

(* the horizontal and the vertical move of global_realign_rects, from the  *)
(* bounding rect rb of the rects to the bound rect gb                      *)
RealignX(a, rb, gb) ==
    IF _horz_align(global_align(a, major(a))) = "left" THEN gb.left - rb.left
    ELSE IF _horz_align(global_align(a, major(a))) = "right" THEN gb.right - rb.right
    ELSE get_centre(gb)[1] - get_centre(rb)[1]

RealignY(a, rb, gb) ==
    IF _vert_align(global_align(a, minor(a))) = "top" THEN gb.top - rb.top
    ELSE IF _vert_align(global_align(a, minor(a))) = "bottom" THEN gb.bottom - rb.bottom
    ELSE get_centre(gb)[2] - get_centre(rb)[2]

RealignBy(rs, dx, dy) == [i \in DOMAIN rs |-> move_by(rs[i], dx, dy)]

global_realign_rects(a, rs) ==
    RealignBy(rs, RealignX(a, bounding_rect(rs), bound_rect(a)),
                  RealignY(a, bounding_rect(rs), bound_rect(a)))

(* coords_from_rects: the centre of each rect on the two axes of the       *)
(* plane, in steps of 1 / GridUnit; the minor axis is assigned last; <<>>  *)
(* is None                                                                 *)
CoordOfRect(a, r, axis) ==
    IF minor(a) = axis \/ (minor(a) \notin {"X", "Y"} /\ axis = "Z")
    THEN <<get_centre(r)[2] \div 2>>
    ELSE IF major(a) = axis \/ (major(a) \notin {"X", "Y"} /\ axis = "Z")
    THEN <<get_centre(r)[1] \div 2>>
    ELSE <<>>

coords_from_rects(a, rs) ==
    [i \in DOMAIN rs |-> <<CoordOfRect(a, rs[i], "X"), CoordOfRect(a, rs[i], "Y"),
                           CoordOfRect(a, rs[i], "Z")>>]

(* [rect.as_rect() for rect in rl.iter_assigned()] *)
AssignedRects(rs) == [k \in DOMAIN iter_assigned(rs) |-> rs[iter_assigned(rs)[k]]]

(* the coordinates of solid i: x_pos, y_pos, z_pos, replaced by the        *)
(* coordinates of loc that are not None                                    *)
GridPlaceAt(a, size, loc) ==
    <<IF loc[1] # <<>> THEN loc[1][1] ELSE x_pos(a, size),
      IF loc[2] # <<>> THEN loc[2][1] ELSE y_pos(a, size),
      IF loc[3] # <<>> THEN loc[3][1] ELSE z_pos(a, size)>>

(* the loop of layout over zip(solids, _obj_sizes, locs) *)
GridPlaced(a, locs) ==
    [i \in 1 .. SetMin({Len(a.solids), Len(locs)}) |-> GridPlaceAt(a, a._obj_sizes[i], locs[i])]

(* the sizes returned with the coordinates *)
GridSizes(a, coords) == [i \in DOMAIN coords |-> a._obj_sizes[i]]

(* the end of layout: the fixed values are reset, the coordinates and      *)
(* sizes stored and returned; cells holds the rects of the RectLayout      *)
GridReturns(a, coords, cells) ==
    [a |-> [a EXCEPT !.fixed_x = <<>>, !.fixed_y = <<>>, !.fixed_z = <<>>,
                     !._coords = coords, !._sizes = GridSizes(a, coords)],
     coords |-> coords, sizes |-> GridSizes(a, coords), cells |-> cells, outcome |-> "ok"]

(* layout from the return of optimize_layout on *)
GridOptimized(a, res) ==
    IF res.outcome # "ok"
    THEN [a |-> a, coords |-> <<>>, sizes |-> <<>>, cells |-> res.rs, outcome |-> res.outcome]
    ELSE GridReturns(a,
            GridPlaced(a, coords_from_rects(a, global_realign_rects(a, AssignedRects(res.rs)))),
            res.rs)

(* the keywords of the optimize_layout call of layout *)
GridReshapeArgs(a, cw) ==
    [col_wise |-> cw, hard_bounds_limit |-> TRUE, grid_align |-> a.grid_align, gutter |-> 0,
     full_reshape |-> TRUE, whitespace_weight |-> 1, distortion_weight |-> 1]

(* cw: False, not row_wise where row_wise is given, col_wise where it is;  *)
(* both are <<>> where left out                                            *)
GridColWise(row_wise, col_wise) ==
    IF col_wise # <<>> THEN col_wise[1]
    ELSE IF row_wise # <<>> THEN ~row_wise[1]
    ELSE FALSE

(* layout from the computed inset on: the RectLayout of the rects of the   *)
(* solids, aligned as the two axes of the plane, and its reshape search    *)
GridLaidOut(a, cw) ==
    GridOptimized(a,
        reshape(set_horz_align(set_vert_align(rects_from_objs(a),
                                              _vert_align(axis_align(a, minor(a)))),
                               _horz_align(axis_align(a, major(a)))),
                bound_rect(a), GridReshapeArgs(a, cw)))

(* GridLayoutArranger.layout(plane, row_wise, col_wise, **kw) *)
layout(a, plane, row_wise, col_wise, kw) ==
    IF PreTransformsRaise(a, kw)
    THEN [a |-> apply_pre_transforms(
                    [a EXCEPT !.plane = IF plane # <<>> THEN plane[1] ELSE @], kw),
          coords |-> <<>>, sizes |-> <<>>, cells |-> <<>>, outcome |-> "TypeError"]
    ELSE GridLaidOut(_compute_inset(apply_pre_transforms(
                        [a EXCEPT !.plane = IF plane # <<>> THEN plane[1] ELSE @], kw)),
                     GridColWise(row_wise, col_wise))

(***************************************************************************)
(* SpecGrid: a GridLayoutArranger is built over a list of solids and one   *)
(* layout call is made of it.  results holds the coordinates and sizes     *)
(* returned and rects the rects of the RectLayout of the call, with the    *)
(* cell of each solid.                                                     *)
(***************************************************************************)
GridBoxes == {MaxBound, 2 * MaxBound}

Planes == {<<"X", "Y">>, <<"Y", "Z">>, <<"Z", "X">>, <<"x", "z">>}

(* row_wise and col_wise: both left out, col_wise=True, row_wise=False *)
GridWiseArgs == {<<<<>>, <<>>>>, <<<<>>, <<TRUE>>>>, <<<<FALSE>>, <<>>>>}

(* the keywords of the constructor *)
GridArrangerArgs(margin, al, plane, unit) ==
    [margin |-> margin * unit,
     x_margin |-> <<>>, y_margin |-> <<>>, z_margin |-> <<>>,
     left_margin |-> <<>>, right_margin |-> <<>>, front_margin |-> <<>>,
     back_margin |-> <<>>, top_margin |-> <<>>, bottom_margin |-> <<>>,
     method |-> "equal_spaced", x_align |-> al[1], y_align |-> al[2], z_align |-> al[3],
     plane |-> plane]

GridBuilt(solids, bounds_tuple, kw) ==
    /\ arranger = GridLayoutArranger(solids, bounds_tuple, kw)
    /\ call = [op |-> "GridLayoutArranger", bounds |-> bounds_tuple, kw |-> kw]

InitGrid ==
    /\ rects = <<>>
    /\ bounds = Rect(0, 0, FALSE)
    /\ outcome = "ok"
    /\ results = <<>>
    /\ \E sizes \in SolidLists, l \in GridBoxes, margin \in 0 .. 1, al \in AlignArgs,
          plane \in Planes :
          GridBuilt(ScaledSolids(sizes, GridUnit), Scaled(BoundsTuple(l), GridUnit),
                    GridArrangerArgs(margin, al, plane, GridUnit))

(* the state a layout call leaves *)
GridCallReturns(res, wise) ==
    /\ arranger' = res.a
    /\ results' = [coords |-> res.coords, sizes |-> res.sizes]
    /\ rects' = res.cells
    /\ outcome' = res.outcome
    /\ call' = [op |-> "layout", row_wise |-> wise[1], col_wise |-> wise[2],
                bounds |-> call.bounds, kw |-> call.kw, prev |-> call]
    /\ UNCHANGED bounds

(* arranger.layout(row_wise, col_wise) *)
GridLayout(wise) ==
    GridCallReturns(layout(arranger, <<>>, wise[1], wise[2], PreKw(<<>>, <<>>, <<>>, <<>>)), wise)

GridLayoutCall ==
    /\ call.op = "GridLayoutArranger"
    /\ \E wise \in GridWiseArgs : GridLayout(wise)

NextGrid == GridLayoutCall

SpecGrid == InitGrid /\ [][NextGrid]_vars

(***************************************************************************)
(* Fasteners (cq_fasteners.py).  A keyword dictionary is the sequence of   *)
(* its <<name, value>> pairs in the order the keywords were written, <<>>  *)
(* is None and <<v>> a value.  A family string is the sequence of its      *)
(* words, a reference dimension is named by its table, item and field.     *)
(***************************************************************************)
ATTR_ALIASES ==
    [inner_diameter |-> {"inside", "inside_diameter", "inner"},
     outer_diameter |-> {"outside", "outside_diameter", "outer"},
     diameter |-> {"diam", "dia"},
     thickness |-> {"height"},
     height |-> {"thickness"}]

(* the places of the keywords at which the loop of attr_match returns: the *)
(* keyword is the key, or is found in the alias list of any attribute      *)
MatchPlaces(key, kwargs) ==
    {i \in DOMAIN kwargs :
        \/ kwargs[i][1] = key
        \/ \E ka \in DOMAIN ATTR_ALIASES : kwargs[i][1] \in ATTR_ALIASES[ka]}

(* the least member of a non-empty set of naturals *)
Least(S) == CHOOSE i \in S : \A j \in S : i <= j

attr_match(key, kwargs) ==
    IF MatchPlaces(key, kwargs) = {} THEN <<>>
    ELSE <<kwargs[Least(MatchPlaces(key, kwargs))][2]>>

(* parse_item: a family of two words and no item is a family and an item *)
parse_item(family, item) ==
    IF family # <<>> /\ item = <<>> /\ Len(family[1]) = 2
    THEN <<<<<<family[1][1]>>>>, <<family[1][2]>>>>
    ELSE <<family, item>>

(* s.lower() of a string, word by word *)
lower(words) ==
    [i \in DOMAIN words |->
        CASE words[i] = "SAE" -> "sae" [] words[i] = "Metric" -> "metric"
          [] words[i] = "LINE" -> "line" [] OTHER -> words[i]]

(* the items of the tables of refdim.py that the model draws from *)
RefItems ==
    [WASHER_SAE |-> {"#8"}, WASHER_USS |-> {"1/4"}, WASHER_METRIC |-> {"2mm", "4mm"},
     NUT_US |-> {"#8"}, NUT_METRIC |-> {"2mm", "4mm"}]

(* TABLE[item][field] *)
RefDim(table, item, field) == <<[table |-> table, item |-> item[1], field |-> field]>>

(* TRUE where TABLE[item] raises KeyError *)
NoRefItem(table, item) == item = <<>> \/ item[1] \notin RefItems[table]

(* the table that _find_dim of CQWasher reads for a family, <<>> for none *)
WasherTable(family) ==
    CASE lower(family[1]) = <<"sae">> -> <<"WASHER_SAE">>
      [] lower(family[1]) = <<"uss">> -> <<"WASHER_USS">>
      [] lower(family[1]) = <<"metric">> -> <<"WASHER_METRIC">>
      [] OTHER -> <<>>

NoDimensions == [inner_diameter |-> <<>>, outer_diameter |-> <<>>, thickness |-> <<>>]

(* CQWasher._find_dim *)
WasherFindDim(family, item) ==
    IF WasherTable(family) = <<>> THEN [obj |-> NoDimensions, outcome |-> "ValueError"]
    ELSE IF NoRefItem(WasherTable(family)[1], item)
    THEN [obj |-> NoDimensions, outcome |-> "KeyError"]
    ELSE [obj |-> [inner_diameter |-> RefDim(WasherTable(family)[1], item, "inside"),
                   outer_diameter |-> RefDim(WasherTable(family)[1], item, "outside"),
                   thickness |-> RefDim(WasherTable(family)[1], item, "thickness")],
          outcome |-> "ok"]

(* the attributes that CQWasher.__init__ takes from the keywords *)
WasherFromKwargs(kwargs) ==
    [inner_diameter |-> attr_match("inner_diameter", kwargs),
     outer_diameter |-> attr_match("outer_diameter", kwargs),
     thickness |-> attr_match("thickness", kwargs)]

(* TRUE where an attribute of those named is None *)
AnyNone(obj, names) == \E x \in names : obj[x] = <<>>

(* CQWasher(family, item, **kwargs): the object and "ok", or the exception *)
CQWasher(family, item, kwargs) ==
    IF parse_item(family, item)[1] # <<>>
    THEN WasherFindDim(parse_item(family, item)[1], parse_item(family, item)[2])
    ELSE [obj |-> WasherFromKwargs(kwargs),
          outcome |-> IF AnyNone(WasherFromKwargs(kwargs),
                                 {"inner_diameter", "outer_diameter", "thickness"})
                      THEN "ValueError" ELSE "ok"]

(* the table that _find_dim of CQNut reads for a family, <<>> for none *)
NutTable(family) ==
    CASE lower(family[1]) = <<"us">> -> <<"NUT_US">>
      [] lower(family[1]) = <<"metric">> -> <<"NUT_METRIC">>
      [] OTHER -> <<>>

NoNutDimensions ==
    [diameter |-> <<>>, height |-> <<>>, inner_diameter |-> <<>>, chamfer |-> <<>>]

(* the chamfer of a nut is diameter / 15, held as <<diameter, 15>> *)
WithChamfer(obj) == [obj EXCEPT !.chamfer = <<<<obj.diameter[1], 15>>>>]

(* CQNut._find_dim *)
NutFindDim(family, item) ==
    IF NutTable(family) = <<>> THEN [obj |-> NoNutDimensions, outcome |-> "ValueError"]
    ELSE IF NoRefItem(NutTable(family)[1], item)
    THEN [obj |-> NoNutDimensions, outcome |-> "KeyError"]
    ELSE [obj |-> WithChamfer(
                     [inner_diameter |-> RefDim(NutTable(family)[1], item, "inside"),
                      diameter |-> RefDim(NutTable(family)[1], item, "diameter"),
                      height |-> RefDim(NutTable(family)[1], item, "height"),
                      chamfer |-> <<>>]),
          outcome |-> "ok"]

(* the attributes that CQNut.__init__ takes from the keywords *)
NutFromKwargs(kwargs) ==
    [diameter |-> attr_match("diameter", kwargs),
     height |-> attr_match("height", kwargs),
     inner_diameter |-> attr_match("inner_diameter", kwargs),
     chamfer |-> <<>>]

(* CQNut(family, item, **kwargs): the object and "ok", or the exception *)
CQNut(family, item, kwargs) ==
    IF parse_item(family, item)[1] # <<>>
    THEN NutFindDim(parse_item(family, item)[1], parse_item(family, item)[2])
    ELSE IF AnyNone(NutFromKwargs(kwargs), {"diameter", "height", "inner_diameter"})
    THEN [obj |-> NutFromKwargs(kwargs), outcome |-> "ValueError"]
    ELSE [obj |-> WithChamfer(NutFromKwargs(kwargs)), outcome |-> "ok"]

(***************************************************************************)
(* The fasteners specification: a keyword dictionary of up to MaxKw        *)
(* keywords is drawn, then attr_match, CQWasher or CQNut is called with    *)
(* it.                                                                     *)
(***************************************************************************)
MaxKw == 3

(* attribute names, some of their aliases, and a keyword that is neither *)
KwNames ==
    {"inner_diameter", "outer_diameter", "thickness", "diameter", "height",
     "inside", "outer", "dia", "colour"}

KwValues == {1, 2}

(* the keyword dictionaries: no name twice *)
KwargsSet ==
    {kw \in UNION {[1 .. n -> KwNames \X KwValues] : n \in 0 .. MaxKw} :
        \A i, j \in DOMAIN kw : i # j => kw[i][1] # kw[j][1]}

(* the family and item arguments *)
FamilyArgs ==
    {<<<<>>, <<>>>>,
     <<<<<<"metric">>>>, <<"2mm">>>>,
     <<<<<<"Metric", "4mm">>>>, <<>>>>,
     <<<<<<"metric", "2mm">>>>, <<"2mm">>>>,
     <<<<<<"SAE">>>>, <<"#8">>>>,
     <<<<<<"uss">>>>, <<"1/4">>>>,
     <<<<<<"us">>>>, <<"#8">>>>,
     <<<<<<"not", "found">>>>, <<>>>>,
     <<<<<<"metric">>>>, <<"abc">>>>}

InitFasteners ==
    /\ rects = <<>>
    /\ bounds = Rect(0, 0, FALSE)
    /\ arranger = <<>>
    /\ outcome = "ok"
    /\ results = <<>>
    /\ \E kw \in KwargsSet : call = [op |-> "kwargs", kwargs |-> kw]

(* attr_match(key, kwargs) *)
AttrMatchCall ==
    /\ call.op = "kwargs"
    /\ \E key \in DOMAIN ATTR_ALIASES :
          /\ results' = attr_match(key, call.kwargs)
          /\ call' = [op |-> "attr_match", key |-> key, kwargs |-> call.kwargs]
    /\ outcome' = "ok"
    /\ UNCHANGED <<rects, bounds, arranger>>

(* CQWasher(family, item, **kwargs) *)
CQWasherCall ==
    /\ call.op = "kwargs"
    /\ \E f \in FamilyArgs :
          /\ results' = CQWasher(f[1], f[2], call.kwargs).obj
          /\ outcome' = CQWasher(f[1], f[2], call.kwargs).outcome
          /\ call' = [op |-> "CQWasher", family |-> f[1], item |-> f[2], kwargs |-> call.kwargs]
    /\ UNCHANGED <<rects, bounds, arranger>>

(* CQNut(family, item, **kwargs) *)
CQNutCall ==
    /\ call.op = "kwargs"
    /\ \E f \in FamilyArgs :
          /\ results' = CQNut(f[1], f[2], call.kwargs).obj
          /\ outcome' = CQNut(f[1], f[2], call.kwargs).outcome
          /\ call' = [op |-> "CQNut", family |-> f[1], item |-> f[2], kwargs |-> call.kwargs]
    /\ UNCHANGED <<rects, bounds, arranger>>

NextFasteners == AttrMatchCall \/ CQWasherCall \/ CQNutCall

SpecFasteners == InitFasteners /\ [][NextFasteners]_vars

(***************************************************************************)
(* Ribbon (cq_ribbon.py).  Every number (a coordinate, a length, a width,  *)
(* an angle in degrees) is held in steps of 1 / RibbonUnit.  A command is  *)
(* a record of its name and parameters.  A string of a command dictionary  *)
(* is the sequence of its whitespace-separated items, each item the        *)
(* sequence of its characters; a key that is missing is <<>>, a key that   *)
(* is there <<items>>.  In the results of the parsing operators <<>>       *)
(* stands for a ValueError raised and <<v>> for the value v.               *)
(***************************************************************************)
RibbonUnit == 4

RECURSIVE Pow10(_)
Pow10(n) == IF n = 0 THEN 1 ELSE 10 * Pow10(n - 1)

(* s.replace(ch, "") *)
Without(s, ch) == SelectSeq(s, LAMBDA c : c # ch)

(* a numeral without its sign *)
Unsigned(s) == IF s # <<>> /\ s[1] = "-" THEN Tail(s) ELSE s

(* TRUE where float(s) accepts s, a string of digits, "." and "-" *)
IsFloat(s) ==
    /\ ~InStr("-", Unsigned(s))
    /\ Len(SelectSeq(Unsigned(s), LAMBDA c : c = ".")) <= 1
    /\ \E i \in DOMAIN s : IsDigit(s[i])

(* float(s) of an unsigned numeral; the numerals drawn are whole numbers   *)
(* of steps                                                                *)
UnsignedFloat(s) ==
    DigitsVal(SubSeq(s, 1, FirstPlace(".", s) - 1)) * RibbonUnit
      + (DigitsVal(SubSeq(s, FirstPlace(".", s) + 1, Len(s))) * RibbonUnit)
          \div Pow10(Len(SubSeq(s, FirstPlace(".", s) + 1, Len(s))))

(* float(s) *)
float(s) ==
    IF ~IsFloat(s) THEN <<>>
    ELSE IF s[1] = "-" THEN <<0 - UnsignedFloat(Unsigned(s))>>
    ELSE <<UnsignedFloat(s)>>

_floatval(v) == float(SelectSeq(v, LAMBDA c : IsDigit(c) \/ c = "." \/ c = "-"))

_token_val(token, s) == _floatval(Without(Without(s, token), ":"))

(* the strings between the delimiters of an item without its brackets *)
TupleParts(s) == IF InStr("/", s) THEN Split(s, "/") ELSE Split(s, ",")

(* the tuple of the values of the parts *)
FloatTuple(parts) ==
    IF \E i \in DOMAIN parts : _floatval(parts[i]) = <<>> THEN <<>>
    ELSE <<[i \in DOMAIN parts |-> _floatval(parts[i])[1]]>>

_token_tuple(s) == FloatTuple(TupleParts(Without(Without(s, "("), ")")))

(* item.upper()[0] *)
FirstUpper(item) ==
    CASE item[1] = "d" -> "D" [] item[1] = "w" -> "W" [] item[1] = "l" -> "L"
      [] item[1] = "a" -> "A" [] OTHER -> item[1]

(* the value that the loop over the items of sd["start"] leaves in the     *)
(* variable of kind "D", "W" or "P" (the position): <<>> while the         *)
(* variable is unassigned, <<<<>>>> where the parsing raised               *)
StartItemKind(item) ==
    IF FirstUpper(item) = "D" THEN "D" ELSE IF FirstUpper(item) = "W" THEN "W" ELSE "P"

StartItemValue(item) ==
    IF FirstUpper(item) = "D" THEN _token_val("D", item)
    ELSE IF FirstUpper(item) = "W" THEN _token_val("W", item)
    ELSE _token_tuple(item)

(* the items of the kind, in their order *)
ItemsOfKind(items, kind) == SelectSeq(items, LAMBDA item : StartItemKind(item) = kind)

(* the last value assigned to the variable of the kind *)
LastAssigned(items, kind) ==
    StartItemValue(ItemsOfKind(items, kind)[Len(ItemsOfKind(items, kind))])[1]

(* the command that an item of sd["path"] appends: <<>> for an item that   *)
(* is passed over, <<<<>>>> where the parsing or the unpacking of the      *)
(* radius and angle raised ValueError                                      *)
ArcParams(item) == _token_tuple(Without(Without(item, "A"), ":"))

PathItemCommand(item) ==
    IF FirstUpper(item) = "L"
    THEN IF _token_val("L", item) = <<>> THEN <<<<>>>>
         ELSE <<[name |-> "line", length |-> _token_val("L", item)[1]]>>
    ELSE IF FirstUpper(item) = "A"
    THEN IF ArcParams(item) = <<>> \/ Len(ArcParams(item)[1]) # 2 THEN <<<<>>>>
         ELSE <<[name |-> "arc", radius |-> ArcParams(item)[1][1],
                 angle |-> ArcParams(item)[1][2]]>>
    ELSE <<>>

(* the commands that the items of sd["path"] append *)
RECURSIVE PathCommands(_)
PathCommands(items) ==
    IF items = <<>> THEN <<>> ELSE PathItemCommand(Head(items)) \o PathCommands(Tail(items))

(* commands_from_strdict(sd): the command list and "ok", or the exception  *)
commands_from_strdict(sd) ==
    IF sd.start = <<>> THEN [commands |-> <<>>, outcome |-> "ValueError"]
    ELSE IF \E i \in DOMAIN sd.start[1] : StartItemValue(sd.start[1][i]) = <<>>
    THEN [commands |-> <<>>, outcome |-> "ValueError"]
    ELSE IF \E kind \in {"D", "W", "P"} : ItemsOfKind(sd.start[1], kind) = <<>>
    THEN [commands |-> <<>>, outcome |-> "UnboundLocalError"]
    ELSE IF sd.path = <<>> THEN [commands |-> <<>>, outcome |-> "ValueError"]
    ELSE IF \E i \in DOMAIN sd.path[1] : PathItemCommand(sd.path[1][i]) = <<<<>>>>
    THEN [commands |-> <<>>, outcome |-> "ValueError"]
    ELSE [commands |-> <<[name |-> "start",
                          position |-> LastAssigned(sd.start[1], "P"),
                          direction |-> LastAssigned(sd.start[1], "D"),
                          width |-> LastAssigned(sd.start[1], "W")]>>
                        \o PathCommands(sd.path[1]),
          outcome |-> "ok"]

(* Ribbon(workplane, commands): the object, or the exception that the      *)
(* parsing of a command dictionary raises; commands is [kind |-> "None"],  *)
(* a list [kind |-> "list", list |-> l] or a dictionary [kind |-> "dict",  *)
(* start |-> s, path |-> p]; the attribute commands is <<>> for None       *)
Ribbon(workplane, commands) ==
    [obj |-> [workplane |-> workplane, current_x |-> 0, current_y |-> 0, direction |-> 0,
              commands |-> CASE commands.kind = "None" -> <<>>
                             [] commands.kind = "list" -> <<commands.list>>
                             [] commands.kind = "dict" ->
                                  <<commands_from_strdict(commands).commands>>],
     outcome |-> IF commands.kind = "dict" THEN commands_from_strdict(commands).outcome
                 ELSE "ok"]

(* cos and sin of an angle that is a whole number of quarter turns *)
QuarterTurns(d) == (d % (360 * RibbonUnit)) \div (90 * RibbonUnit)

cos(d) == CASE QuarterTurns(d) = 0 -> 1 [] QuarterTurns(d) = 1 -> 0
            [] QuarterTurns(d) = 2 -> 0 - 1 [] QuarterTurns(d) = 3 -> 0

sin(d) == CASE QuarterTurns(d) = 0 -> 0 [] QuarterTurns(d) = 1 -> 1
            [] QuarterTurns(d) = 2 -> 0 [] QuarterTurns(d) = 3 -> 0 - 1

(* _rotate(sx, sy, cx, cy, theta_degrees): the point <<ex, ey>> *)
_rotate(sx, sy, cx, cy, theta) ==
    <<cx + (cos(theta) * (sx - cx) - sin(theta) * (sy - cy)),
      cy + (sin(theta) * (sx - cx) + cos(theta) * (sy - cy))>>

(* the centre of rotation <<rx, ry>> of _turn *)
TurnCentre(vx, vy, direction, r, turn) ==
    IF turn > 0 THEN <<vx - r * sin(direction), vy + r * cos(direction)>>
    ELSE <<vx + r * sin(direction), vy - r * cos(direction)>>

(* _turn(vx, vy, direction_degrees, r, turn_degrees): <<qmx, qmy, qex, qey>> *)
_turn(vx, vy, direction, r, turn) ==
    _rotate(vx, vy, TurnCentre(vx, vy, direction, r, turn)[1],
            TurnCentre(vx, vy, direction, r, turn)[2], turn \div 2)
      \o _rotate(vx, vy, TurnCentre(vx, vy, direction, r, turn)[1],
                 TurnCentre(vx, vy, direction, r, turn)[2], turn)

(* the radius of the edge of an arc command *)
EdgeRadius(c, offset, angle) == IF angle > 0 THEN c.radius - offset ELSE c.radius + offset

(* the body of the loop of _parse_commands for a "line" command: the       *)
(* ribbon moved on and the edge added                                      *)
LineTo(rb, c) ==
    [rb |-> [rb EXCEPT !.current_x = @ + c.length * cos(rb.direction),
                       !.current_y = @ + c.length * sin(rb.direction)],
     edge |-> [op |-> "lineTo",
               to |-> <<rb.current_x + c.length * cos(rb.direction),
                        rb.current_y + c.length * sin(rb.direction)>>]]

(* the body of the loop for an "arc" command that turns by angle with the  *)
(* three point arc t                                                       *)
ArcTo(rb, angle, t) ==
    [rb |-> [rb EXCEPT !.direction = @ + angle, !.current_x = t[3], !.current_y = t[4]],
     edge |-> [op |-> "threePointArc", mid |-> <<t[1], t[2]>>, to |-> <<t[3], t[4]>>]]

(* TRUE where the loop of _parse_commands raises ValueError at command c *)
Unrecognized(c) == lower(<<c.name>>)[1] \notin {"line", "arc"}

(* _parse_commands as it would be if the arcs of both sides turned the     *)
(* same way                                                                *)
_parse_commands_same_turn(rb, c, offset, direction_multiplier) ==
    IF lower(<<c.name>>)[1] = "line" THEN LineTo(rb, c)
    ELSE ArcTo(rb, c.angle,
               _turn(rb.current_x, rb.current_y, rb.direction,
                     EdgeRadius(c, offset, c.angle), c.angle))

(* one pass of the loop of _parse_commands at a recognized command c *)
_parse_commands(rb, c, offset, direction_multiplier) ==
    IF lower(<<c.name>>)[1] = "line" THEN LineTo(rb, c)
    ELSE ArcTo(rb, c.angle * direction_multiplier,
               _turn(rb.current_x, rb.current_y, rb.direction,
                     EdgeRadius(c, offset, c.angle * direction_multiplier),
                     c.angle * direction_multiplier))

(* the ribbon at the start of the left hand side *)
AtStart(rb, start) ==
    [rb EXCEPT !.direction = start.direction,
               !.current_x = start.position[1]
                               + (start.width \div 2) * cos(start.direction + 90 * RibbonUnit),
               !.current_y = start.position[2]
                               + (start.width \div 2) * sin(start.direction + 90 * RibbonUnit)]

(* the ribbon turned about and moved across its width by the end line *)
AtEndCap(rb, half_width) ==
    [rb EXCEPT !.direction = @ + 180 * RibbonUnit,
               !.current_x = @ + 2 * half_width * cos(rb.direction + 270 * RibbonUnit),
               !.current_y = @ + 2 * half_width * sin(rb.direction + 270 * RibbonUnit)]

(* the exception that the start of render raises, "ok" for none *)
RenderRaises(rb) ==
    IF rb.workplane = <<>> THEN "ValueError"
    ELSE IF rb.commands = <<>> THEN "ValueError"
    ELSE IF rb.commands[1] = <<>> THEN "IndexError"
    ELSE IF rb.commands[1][1].name # "start" THEN "ValueError"
    ELSE IF Len(rb.commands[1][1].position) < 2 THEN "IndexError"
    ELSE "ok"

(***************************************************************************)
(* The ribbon specification: a Ribbon is constructed from a command list   *)
(* or a command dictionary and rendered; render is followed command by     *)
(* command.  arranger holds the Ribbon, results the calls made of the      *)
(* CadQuery object (moveTo, lineTo, threePointArc, close), call the        *)
(* position in render: the pass, the place i in the command list,          *)
(* half_width, and the log of the commands parsed with the heading each    *)
(* left (c = 0 for the end line).                                          *)
(***************************************************************************)
MaxPath == 3

StartCommands ==
    {[name |-> "start", position |-> <<RibbonUnit, 0>>, direction |-> d * RibbonUnit,
      width |-> w * RibbonUnit] : d \in {0, 90}, w \in {1, 2}}

(* path commands: lines, half turns to the left and to the right, a line   *)
(* named in capitals, and a command that is neither                        *)
PathCommandSet ==
    {[name |-> "line", length |-> RibbonUnit], [name |-> "line", length |-> 2 * RibbonUnit],
     [name |-> "LINE", length |-> RibbonUnit],
     [name |-> "arc", radius |-> 2 * RibbonUnit, angle |-> 180 * RibbonUnit],
     [name |-> "arc", radius |-> 2 * RibbonUnit, angle |-> 0 - 180 * RibbonUnit],
     [name |-> "bad"]}

PathLists == UNION {[1 .. n -> PathCommandSet] : n \in 0 .. MaxPath}

(* command lists with and without the start command *)
CommandLists ==
    {<<s>> \o p : s \in StartCommands, p \in PathLists}
      \cup {p \in PathLists : Len(p) <= 2}

(* the "start" strings: "(1,0) D:90 W:2", "1/0 Dir0 w0.5",
   and strings without a width, with a D item without a number, and with
   a position of one number *)
StartStrings ==
    {<<<<"(", "1", ",", "0", ")">>, <<"D", ":", "9", "0">>, <<"W", ":", "2">>>>,
     <<<<"1", "/", "0">>, <<"D", "i", "r", "0">>, <<"w", "0", ".", "5">>>>,
     <<<<"1", ",", "0">>, <<"D", ":", "9", "0">>>>,
     <<<<"1", ",", "0">>, <<"D">>, <<"W", "2">>>>,
     <<<<"1">>, <<"D", "9", "0">>, <<"W", "2">>>>}

(* the "path" strings: "L:2 A:2/180", "line:1 arc(2,-180) x L1.5", "L2 A:2" *)
PathStrings ==
    {<<<<"L", ":", "2">>, <<"A", ":", "2", "/", "1", "8", "0">>>>,
     <<<<"l", "i", "n", "e", ":", "1">>, <<"a", "r", "c", "(", "2", ",", "-", "1", "8", "0", ")">>, <<"x">>, <<"L", "1", ".", "5">>>>,
     <<<<"L", "2">>, <<"A", ":", "2">>>>}

(* command dictionaries with and without the two keys *)
CommandDicts ==
    {[kind |-> "dict", start |-> s, path |-> p] :
        s \in {<<>>} \cup {<<x>> : x \in StartStrings},
        p \in {<<>>} \cup {<<x>> : x \in PathStrings}}

CommandArgs ==
    {[kind |-> "None"]} \cup {[kind |-> "list", list |-> l] : l \in CommandLists}
      \cup CommandDicts

InitRibbon ==
    /\ rects = <<>>
    /\ bounds = Rect(0, 0, FALSE)
    /\ results = <<>>
    /\ \E workplane \in {<<>>, <<"XY">>}, commands \in CommandArgs :
          /\ arranger = Ribbon(workplane, commands).obj
          /\ outcome = Ribbon(workplane, commands).outcome
          /\ call = [op |-> "Ribbon", workplane |-> workplane, commands |-> commands]

(* the state in which render raises *)
RenderRaised(exception) ==
    /\ outcome' = exception
    /\ call' = [call EXCEPT !.pc = "raised"]

(* the state after one more command c of the list is parsed in the pass,   *)
(* with the next place to parse                                            *)
Parsed(step, c, i) ==
    /\ arranger' = step.rb
    /\ results' = Append(results, step.edge)
    /\ call' = [call EXCEPT !.i = i,
                            !.log = Append(@, [c |-> c, direction |-> step.rb.direction])]
    /\ UNCHANGED outcome

(* render(close_path) up to the start of the left hand side *)
RenderStart ==
    /\ call.op = "Ribbon" /\ outcome = "ok"
    /\ \E close_path \in BOOLEAN :
          IF RenderRaises(arranger) # "ok"
          THEN /\ outcome' = RenderRaises(arranger)
               /\ call' = [op |-> "render", close_path |-> close_path, pc |-> "raised",
                           i |-> 1, half_width |-> 0, log |-> <<>>, prev |-> call]
               /\ arranger' =
                     IF arranger.workplane # <<>> /\ arranger.commands # <<>>
                          /\ RenderRaises(arranger) = "IndexError"
                          /\ arranger.commands[1] # <<>>
                     THEN [arranger EXCEPT !.direction = arranger.commands[1][1].direction,
                                           !.current_x =
                                              AtStart(arranger, [arranger.commands[1][1] EXCEPT
                                                 !.position = @ \o <<0>>]).current_x]
                     ELSE arranger
               /\ UNCHANGED results
          ELSE /\ arranger' = AtStart(arranger, arranger.commands[1][1])
               /\ results' = <<[op |-> "moveTo",
                                to |-> <<AtStart(arranger, arranger.commands[1][1]).current_x,
                                         AtStart(arranger, arranger.commands[1][1]).current_y>>]>>
               /\ call' = [op |-> "render", close_path |-> close_path, pc |-> "left", i |-> 2,
                           half_width |-> arranger.commands[1][1].width \div 2,
                           log |-> <<>>, prev |-> call]
               /\ UNCHANGED outcome
    /\ UNCHANGED <<rects, bounds>>

(* one command of _parse_commands(r, commands[1:], half_width, 1) *)
ParseLeft ==
    /\ call.op = "render" /\ call.pc = "left" /\ call.i <= Len(arranger.commands[1])
    /\ IF Unrecognized(arranger.commands[1][call.i])
       THEN RenderRaised("ValueError") /\ UNCHANGED <<arranger, results>>
       ELSE Parsed(_parse_commands(arranger, arranger.commands[1][call.i], call.half_width, 1),
                   call.i, call.i + 1)
    /\ UNCHANGED <<rects, bounds>>

(* the end line between the two sides *)
EndCap ==
    /\ call.op = "render" /\ call.pc = "left" /\ call.i > Len(arranger.commands[1])
    /\ arranger' = AtEndCap(arranger, call.half_width)
    /\ results' = Append(results,
                         [op |-> "lineTo",
                          to |-> <<AtEndCap(arranger, call.half_width).current_x,
                                   AtEndCap(arranger, call.half_width).current_y>>])
    /\ call' = [call EXCEPT !.pc = "right", !.i = Len(arranger.commands[1]),
                            !.log = Append(@, [c |-> 0,
                                               direction |-> arranger.direction
                                                               + 180 * RibbonUnit])]
    /\ UNCHANGED <<rects, bounds, outcome>>

(* one command of _parse_commands(r, commands[:0:-1], half_width, -1) *)
ParseRight ==
    /\ call.op = "render" /\ call.pc = "right" /\ call.i >= 2
    /\ IF Unrecognized(arranger.commands[1][call.i])
       THEN RenderRaised("ValueError") /\ UNCHANGED <<arranger, results>>
       ELSE Parsed(_parse_commands(arranger, arranger.commands[1][call.i], call.half_width,
                                   0 - 1),
                   call.i, call.i - 1)
    /\ UNCHANGED <<rects, bounds>>

(* the end of render: the path is closed where close_path is set *)
RenderReturns ==
    /\ call.op = "render" /\ call.pc = "right" /\ call.i = 1
    /\ results' = IF call.close_path THEN Append(results, [op |-> "close"]) ELSE results
    /\ call' = [call EXCEPT !.pc = "done"]
    /\ UNCHANGED <<rects, bounds, outcome, arranger>>

NextRibbon == RenderStart \/ ParseLeft \/ EndCap \/ ParseRight \/ RenderReturns

SpecRibbon == InitRibbon /\ [][NextRibbon]_vars

(***************************************************************************)
(* XSection (cq_xsection.py).  A point is a record: a tuple point          *)
(* [kind |-> "tuple", xy |-> <<x, y>>], {"radiusArc": ((x, y), r)} is      *)
(* [kind |-> "radiusArc", xy |-> <<x, y>>, radius |-> r] and               *)
(* {"tangentArc": (x, y)} is [kind |-> "tangentArc", xy |-> <<x, y>>].  A  *)
(* workplane is the sequence of its characters.                            *)
(***************************************************************************)
(* XSection(pts, workplane, symmetric, mirror_axis) *)
XSection(pts, workplane, symmetric, mirror_axis) ==
    [pts |-> pts, workplane |-> workplane, symmetric |-> symmetric,
     mirror_axis |-> mirror_axis]

(* _pt_tuple(pt, scale, offset, swap): the tuple of a point *)
_pt_tuple(pt, scale, offset, swap) ==
    IF swap THEN <<pt.xy[2] * scale[1] + offset[1], pt.xy[1] * scale[2] + offset[2]>>
    ELSE <<pt.xy[1] * scale[1] + offset[1], pt.xy[2] * scale[2] + offset[2]>>

(* _transform_pt(pt, scale, offset, flip, swap) *)
_transform_pt(pt, scale, offset, flip, swap) ==
    IF pt.kind = "radiusArc"
    THEN [kind |-> "radiusArc", xy |-> _pt_tuple(pt, scale, offset, swap),
          radius |-> IF flip THEN pt.radius * (0 - 1) ELSE pt.radius]
    ELSE [pt EXCEPT !.xy = _pt_tuple(pt, scale, offset, swap)]

(* _replace_tuple(pt, pt_tuple) *)
_replace_tuple(pt, pt_tuple) ==
    IF pt.kind = "tuple" THEN [kind |-> "tuple", xy |-> pt_tuple]
    ELSE [pt EXCEPT !.xy = pt_tuple]

(* _mirror_pt as it would be if the point were mirrored about the other    *)
(* axis                                                                    *)
_mirror_pt_other_axis(xs, pt) ==
    IF xs.mirror_axis = xs.workplane[1]
    THEN _transform_pt(pt, <<0 - 1, 1>>, <<0, 0>>, FALSE, FALSE)
    ELSE _transform_pt(pt, <<1, 0 - 1>>, <<0, 0>>, FALSE, FALSE)

_mirror_pt(xs, pt) ==
    IF xs.mirror_axis = xs.workplane[1]
    THEN _transform_pt(pt, <<1, 0 - 1>>, <<0, 0>>, FALSE, FALSE)
    ELSE _transform_pt(pt, <<0 - 1, 1>>, <<0, 0>>, FALSE, FALSE)

(* the scale of get_points: scaled is [kind |-> "None"], a number          *)
(* [kind |-> "number", v |-> s] or a tuple [kind |-> "tuple", t |-> t]     *)
ScaleOf(scaled) ==
    CASE scaled.kind = "None" -> <<1, 1>>
      [] scaled.kind = "number" -> <<scaled.v, scaled.v>>
      [] scaled.kind = "tuple" -> <<scaled.t[1], scaled.t[2]>>

(* pts[-1:0:-1] *)
ReversedTail(pts) == [i \in 1 .. Len(pts) - 1 |-> pts[Len(pts) + 1 - i]]

(* mpts: the mirrored points, the first of them twice where it does not    *)
(* lie on itself                                                           *)
MirroredPts(xs, pts) ==
    IF Len(pts) >= 2 /\ _mirror_pt(xs, pts[Len(pts)]) # pts[Len(pts)]
    THEN <<_mirror_pt(xs, pts[Len(pts)])>>
            \o [i \in 1 .. Len(pts) - 1 |-> _mirror_pt(xs, ReversedTail(pts)[i])]
    ELSE [i \in 1 .. Len(pts) - 1 |-> _mirror_pt(xs, ReversedTail(pts)[i])]

(* the points appended: every mirrored point but the last, with the tuple  *)
(* of the one that follows it                                              *)
ShiftedPts(mpts) ==
    [i \in 1 .. Len(mpts) - 1 |->
        _replace_tuple(mpts[i], _pt_tuple(mpts[i + 1], <<1, 1>>, <<0, 0>>, FALSE))]

(* pts of get_points after the mirrored half is appended *)
WithMirrored(xs, pts) ==
    IF xs.symmetric THEN pts \o ShiftedPts(MirroredPts(xs, pts)) ELSE pts

(* the flipped variant of rpts *)
Flipped(xs, rpts) ==
    [i \in DOMAIN rpts |->
        _transform_pt(rpts[i],
                      IF xs.mirror_axis = xs.workplane[1] THEN <<0 - 1, 1>> ELSE <<1, 0 - 1>>,
                      <<0, 0>>, TRUE, FALSE)]

(* rpts: the points translated *)
Translated(pts, offset) ==
    [i \in DOMAIN pts |-> _transform_pt(pts[i], <<1, 1>>, offset, FALSE, FALSE)]

(* the points scaled *)
ScaledPts(pts, scale) ==
    [i \in DOMAIN pts |-> _transform_pt(pts[i], scale, <<0, 0>>, FALSE, FALSE)]

(* the tuples of the points *)
OnlyTuples(rpts) ==
    [i \in DOMAIN rpts |->
        [kind |-> "tuple", xy |-> _pt_tuple(rpts[i], <<1, 1>>, <<0, 0>>, FALSE)]]

(* rpts of get_points before only_tuples is looked at *)
RPts(xs, flipped, scaled, translated) ==
    IF flipped
    THEN Flipped(xs, Translated(WithMirrored(xs, ScaledPts(xs.pts, ScaleOf(scaled))),
                                IF translated = <<>> THEN <<0, 0>> ELSE translated[1]))
    ELSE Translated(WithMirrored(xs, ScaledPts(xs.pts, ScaleOf(scaled))),
                    IF translated = <<>> THEN <<0, 0>> ELSE translated[1])

(* get_points(flipped, scaled, translated, only_tuples) *)
get_points(xs, flipped, scaled, translated, only_tuples) ==
    IF only_tuples THEN OnlyTuples(RPts(xs, flipped, scaled, translated))
    ELSE RPts(xs, flipped, scaled, translated)

(***************************************************************************)
(* The cross-section specification: an XSection of up to MaxPts points is  *)
(* constructed and get_points is called of it.                             *)
(***************************************************************************)
MaxPts == 3

XSPoints ==
    {[kind |-> "tuple", xy |-> <<x, y>>] : x \in 0 .. 1, y \in 0 .. 2}
      \cup {[kind |-> "radiusArc", xy |-> <<1, 2>>, radius |-> 0 - 1],
            [kind |-> "radiusArc", xy |-> <<0, 1>>, radius |-> 1],
            [kind |-> "tangentArc", xy |-> <<1, 0>>]}

XSPointLists == UNION {[1 .. n -> XSPoints] : n \in 0 .. MaxPts}

(* a workplane with a mirror axis that is one of its two axes *)
XSPlanes ==
    {<<<<"X", "Y">>, "X">>, <<<<"X", "Y">>, "Y">>, <<<<"X", "Z">>, "Z">>}

InitXSection ==
    /\ rects = <<>>
    /\ bounds = Rect(0, 0, FALSE)
    /\ results = <<>>
    /\ outcome = "ok"
    /\ \E pts \in XSPointLists, p \in XSPlanes, symmetric \in BOOLEAN :
          /\ arranger = XSection(pts, p[1], symmetric, p[2])
          /\ call = [op |-> "XSection"]

(* xs.get_points(flipped, scaled, translated, only_tuples) *)
GetPoints(flipped, scaled, translated, only_tuples) ==
    /\ results' = get_points(arranger, flipped, scaled, translated, only_tuples)
    /\ call' = [op |-> "get_points", flipped |-> flipped, scaled |-> scaled,
                translated |-> translated, only_tuples |-> only_tuples]
    /\ UNCHANGED <<rects, bounds, outcome, arranger>>

GetPointsCall ==
    /\ call.op = "XSection"
    /\ \E flipped \in BOOLEAN, scaled \in {[kind |-> "None"], [kind |-> "number", v |-> 2],
                                            [kind |-> "tuple", t |-> <<1, 3>>]},
          translated \in {<<>>, <<<<0 - 2, 4>>>>}, only_tuples \in BOOLEAN :
          GetPoints(flipped, scaled, translated, only_tuples)

NextXSection == GetPointsCall

SpecXSection == InitXSection /\ [][NextXSection]_vars

(***************************************************************************)
(* Point and the anchored and mapping operations of Rect (cq_geometry.py). *)
(* A Point is a record of x and y, a tuple point is <<x, y>>, an angle of  *)
(* rotate is a whole number of quarter turns.  An anchor string is the     *)
(* sequence of its words.  Lengths of a Rect are in half units as above.   *)
(***************************************************************************)
Point(x, y) == [x |-> x, y |-> y]

clone(self) == Point(self.x, self.y)

slide_xy(self, dx, dy) == [self EXCEPT !.x = self.x + dx, !.y = self.y + dy]

(* rotate(rad) for rad = q quarter turns: the new Point it returns *)
rotate(self, q) ==
    Point(cos(q * 90 * RibbonUnit) * self.x - sin(q * 90 * RibbonUnit) * self.y,
          sin(q * 90 * RibbonUnit) * self.x + cos(q * 90 * RibbonUnit) * self.y)

(* the Point that the statement result.rotate(theta) of rotate_about       *)
(* computes and drops                                                      *)
RotateDropped(self, p, theta) == rotate(slide_xy(clone(self), 0 - p.x, 0 - p.y), theta)

(* rotate_about(p, theta): result is a clone slid by -p and slid back by   *)
(* p; rotate does not change the point it is called of                     *)
rotate_about(self, p, theta) ==
    slide_xy(slide_xy(clone(self), 0 - p.x, 0 - p.y), p.x, p.y)

Min2(a, b) == IF a <= b THEN a ELSE b

(* clamp_value(v, min_value, max_value, auto_limit) *)
clamp_value(v, min_value, max_value, auto_limit) ==
    IF auto_limit
    THEN Max2(Min2(v, Max2(min_value, max_value)), Min2(min_value, max_value))
    ELSE Max2(Min2(v, max_value), min_value)

(* e in anchor_pt: e is a word of the string or the head of one *)
InAnchor(e, anchor_pt) ==
    \E i \in DOMAIN anchor_pt :
       \/ anchor_pt[i] = e
       \/ e = "left" /\ anchor_pt[i] = "left_quarter"
       \/ e = "right" /\ anchor_pt[i] = "right_quarter"
       \/ e = "top" /\ anchor_pt[i] = "top_quarter"
       \/ e = "bottom" /\ anchor_pt[i] = "bottom_quarter"

AnyInAnchor(es, anchor_pt) == \E e \in es : InAnchor(e, anchor_pt)

(* get_anchor_pt(anchor_pt): <<x, y>> *)
get_anchor_pt(r, anchor_pt) ==
    <<IF InAnchor("left_quarter", anchor_pt) THEN r.left + r.width \div 4
      ELSE IF InAnchor("right_quarter", anchor_pt) THEN r.right - r.width \div 4
      ELSE IF InAnchor("left", anchor_pt) THEN r.left
      ELSE IF InAnchor("right", anchor_pt) THEN r.right
      ELSE IF AnyInAnchor({"center", "centre", "mid_width"}, anchor_pt)
      THEN r.left + r.width \div 2
      ELSE r.left,
      IF InAnchor("top_quarter", anchor_pt) THEN r.top - r.height \div 4
      ELSE IF InAnchor("bottom_quarter", anchor_pt) THEN r.bottom + r.height \div 4
      ELSE IF InAnchor("top", anchor_pt) THEN r.top
      ELSE IF InAnchor("bottom", anchor_pt) THEN r.bottom
      ELSE IF AnyInAnchor({"center", "centre", "mid_height"}, anchor_pt)
      THEN r.top - r.height \div 2
      ELSE r.top>>

(* set_points(pt1, pt2): the rect fitted to the two points *)
set_points(r, pt1, pt2) ==
    [r EXCEPT !.left = Min2(pt1[1], pt2[1]), !.right = Max2(pt1[1], pt2[1]),
              !.top = IF r.bottom_up THEN Min2(pt1[2], pt2[2]) ELSE Max2(pt1[2], pt2[2]),
              !.bottom = IF r.bottom_up THEN Max2(pt1[2], pt2[2]) ELSE Min2(pt1[2], pt2[2]),
              !.width = Abs(Max2(pt1[1], pt2[1]) - Min2(pt1[1], pt2[1])),
              !.height = Abs(Max2(pt1[2], pt2[2]) - Min2(pt1[2], pt2[2]))]

(* <<x1, x2>> of set_size_anchored *)
AnchoredXs(r, width, anchor_pt) ==
    IF InAnchor("left_quarter", anchor_pt)
    THEN <<r.left + r.width \div 4, r.left + r.width \div 4 + width>>
    ELSE IF InAnchor("right_quarter", anchor_pt)
    THEN <<r.right - r.width \div 4, r.right - r.width \div 4 + width>>
    ELSE IF InAnchor("left", anchor_pt) THEN <<r.left, r.left + width>>
    ELSE IF InAnchor("right", anchor_pt) THEN <<r.right, r.right - width>>
    ELSE IF AnyInAnchor({"centre", "center", "mid_width"}, anchor_pt)
    THEN <<r.left + r.width \div 2 - width \div 2, r.right - r.width \div 2 + width \div 2>>
    ELSE <<r.left, r.left + width>>

(* <<y1, y2>> of set_size_anchored before they are swapped *)
AnchoredYs(r, height, anchor_pt) ==
    IF InAnchor("top_quarter", anchor_pt)
    THEN <<r.top - r.height \div 4, r.top - r.height \div 4 - height>>
    ELSE IF InAnchor("bottom_quarter", anchor_pt)
    THEN <<r.bottom + r.height \div 4, r.bottom + r.height \div 4 + height>>
    ELSE IF InAnchor("top", anchor_pt) THEN <<r.top, r.top - height>>
    ELSE IF InAnchor("bottom", anchor_pt) THEN <<r.bottom, r.bottom + height>>
    ELSE IF AnyInAnchor({"centre", "center", "mid_height"}, anchor_pt)
    THEN <<r.top - r.height \div 2 + height \div 2,
           r.bottom + r.height \div 2 - height \div 2>>
    ELSE <<r.top, r.top - height>>

(* set_size_anchored(width, height, anchor_pt): the rect it leaves (the    *)
(* regions it returns are made from the size and centre of that rect)      *)
set_size_anchored(r, width, height, anchor_pt) ==
    IF r.bottom_up
    THEN set_points(r, <<AnchoredXs(r, width, anchor_pt)[1], AnchoredYs(r, height, anchor_pt)[2]>>,
                    <<AnchoredXs(r, width, anchor_pt)[2], AnchoredYs(r, height, anchor_pt)[1]>>)
    ELSE set_points(r, <<AnchoredXs(r, width, anchor_pt)[1], AnchoredYs(r, height, anchor_pt)[1]>>,
                    <<AnchoredXs(r, width, anchor_pt)[2], AnchoredYs(r, height, anchor_pt)[2]>>)

(* x and y of map_pt_in_other_rect after the clamping *)
ClampedPt(r, pt, clamp_bounds) ==
    IF clamp_bounds
    THEN <<clamp_value(pt[1], r.left, r.right, FALSE),
           clamp_value(pt[2], r.bottom, r.top, TRUE)>>
    ELSE pt

(* xo and yo of a point <<x, y>>, each the ratio <<numerator, denominator>> *)
MappedPt(r, other, x, y) ==
    <<<<other.left * r.width + (x - r.left) * other.width, r.width>>,
      IF other.bottom_up
      THEN <<(r.height - (IF r.bottom_up THEN y - r.top ELSE y - r.bottom)) * other.height
               + other.top * r.height, r.height>>
      ELSE <<(IF r.bottom_up THEN y - r.top ELSE y - r.bottom) * other.height
               + other.bottom * r.height, r.height>>>>

(* map_pt_in_other_rect(other, pt, clamp_bounds) *)
map_pt_in_other_rect(r, other, pt, clamp_bounds) ==
    MappedPt(r, other, ClampedPt(r, pt, clamp_bounds)[1], ClampedPt(r, pt, clamp_bounds)[2])

(***************************************************************************)
(* The geometry specification: a rect (bounds), another rect (rects[1])    *)
(* and a Point (arranger) are made, then one of set_size_anchored,         *)
(* map_pt_in_other_rect and rotate_about is called.                        *)
(***************************************************************************)
MaxSide == 2

(* rects of whole sides, of both orientations, about the origin and moved *)
GeoRects ==
    {move_by(Rect(w, h, b), d[1], d[2]) :
        w \in 1 .. MaxSide, h \in 1 .. MaxSide, b \in BOOLEAN, d \in {<<0, 0>>, <<6, 2>>}}

(* the other rect of a mapping: the widest ones away from the origin *)
OtherRects == {r \in GeoRects : r.width = 2 * MaxSide /\ r.left + r.right # 0}

GeoPoints == {Point(x, y) : x \in 0 - 1 .. 1, y \in 0 - 1 .. 1}

(* the nine anchors, and the four named by one side *)
Anchors ==
    {<<v, h>> : v \in {"top", "centre", "bottom"}, h \in {"left", "centre", "right"}}
      \cup {<<"left">>, <<"right">>, <<"top">>, <<"bottom">>}

(* points of the plane of a rect: its corners, its centre, and points      *)
(* beyond its sides                                                        *)
PtsAbout(r) ==
    {<<x, y>> : x \in {r.left - 2, r.left, r.left + r.width \div 2, r.right, r.right + 2},
                y \in {r.top - 2, r.top, r.top + 1, r.bottom, r.bottom + 2}}

InitGeometry ==
    /\ outcome = "ok"
    /\ results = <<>>
    /\ call = [op |-> "Rect"]
    /\ bounds \in GeoRects
    /\ \E other \in OtherRects : rects = <<other>>
    /\ arranger \in GeoPoints

(* bounds.set_size_anchored(width, height, anchor_pt) *)
SetSizeAnchoredCall ==
    /\ call.op = "Rect"
    /\ \E width \in {2, 6}, height \in {2, 6}, anchor_pt \in Anchors :
          /\ bounds' = set_size_anchored(bounds, width, height, anchor_pt)
          /\ call' = [op |-> "set_size_anchored", width |-> width, height |-> height,
                      anchor_pt |-> anchor_pt, before |-> bounds]
    /\ UNCHANGED <<rects, outcome, results, arranger>>

(* bounds.map_pt_in_other_rect(rects[1], pt, clamp_bounds) *)
MapPtInOtherRectCall ==
    /\ call.op = "Rect"
    /\ \E pt \in PtsAbout(bounds), clamp_bounds \in BOOLEAN :
          /\ results' = map_pt_in_other_rect(bounds, rects[1], pt, clamp_bounds)
          /\ call' = [op |-> "map_pt_in_other_rect", pt |-> pt, clamp_bounds |-> clamp_bounds]
    /\ UNCHANGED <<rects, bounds, outcome, arranger>>

(* arranger.rotate_about(p, theta) *)
RotateAboutCall ==
    /\ call.op = "Rect"
    /\ \E p \in GeoPoints, theta \in 0 .. 3 :
          /\ results' = rotate_about(arranger, p, theta)
          /\ call' = [op |-> "rotate_about", p |-> p, theta |-> theta, before |-> arranger]
    /\ UNCHANGED <<rects, bounds, outcome, arranger>>

NextGeometry == SetSizeAnchoredCall \/ MapPtInOtherRectCall \/ RotateAboutCall

SpecGeometry == InitGeometry /\ [][NextGeometry]_vars

(***************************************************************************)
(* The length constraints of the selectors (cq_selectors.py).  Numbers are *)
(* in steps of 1 / RibbonUnit, as float gives them.  A constraint is a     *)
(* record: kind "number" with the number v, or kind "str" with the string  *)
(* s.  The constraints argument is a record: list TRUE with the items of   *)
(* the list, or list FALSE with the one value passed in items[1].          *)
(***************************************************************************)
RECURSIVE lstrip(_, _)
lstrip(s, ch) == IF s # <<>> /\ s[1] = ch THEN lstrip(Tail(s), ch) ELSE s

RECURSIVE rstrip(_, _)
rstrip(s, ch) ==
    IF s # <<>> /\ s[Len(s)] = ch THEN rstrip(SubSeq(s, 1, Len(s) - 1), ch) ELSE s

(* s.strip(ch) *)
strip(s, ch) == rstrip(lstrip(s, ch), ch)

(* a + b in s, for the characters a and b *)
InStr2(a, b, s) == \E i \in 1 .. Len(s) - 1 : s[i] = a /\ s[i + 1] = b

(* float(constraint.strip(">").strip("<").strip("=")): <<value>>, or <<>>  *)
(* where float raises ValueError                                           *)
ConstraintValue(constraint) ==
    IF \E i \in DOMAIN strip(strip(strip(constraint, ">"), "<"), "=") :
          ~(IsDigit(strip(strip(strip(constraint, ">"), "<"), "=")[i])
              \/ strip(strip(strip(constraint, ">"), "<"), "=")[i] \in {".", "-"})
    THEN <<>>
    ELSE float(strip(strip(strip(constraint, ">"), "<"), "="))

(* str_constraint with '>=' and '<=' compared strictly *)
str_constraint_strict(constraint, length, tolerance) ==
    IF InStr(">", constraint)
    THEN length > ConstraintValue(constraint)[1]
    ELSE IF InStr("<", constraint)
    THEN length < ConstraintValue(constraint)[1]
    ELSE Abs(length - ConstraintValue(constraint)[1]) < tolerance

(* str_constraint(constraint, length, tolerance), where float accepts the  *)
(* stripped string                                                         *)
str_constraint(constraint, length, tolerance) ==
    IF InStr(">", constraint) /\ ~InStr2(">", "=", constraint)
    THEN length > ConstraintValue(constraint)[1]
    ELSE IF InStr("<", constraint) /\ ~InStr2("<", "=", constraint)
    THEN length < ConstraintValue(constraint)[1]
    ELSE IF InStr2(">", "=", constraint)
    THEN length >= ConstraintValue(constraint)[1]
    ELSE IF InStr2("<", "=", constraint)
    THEN length <= ConstraintValue(constraint)[1]
    ELSE Abs(length - ConstraintValue(constraint)[1]) < tolerance

(* the constraints that the loop of is_valid_length goes through *)
ConstraintsOf(length_constraints) == length_constraints.items

(* TRUE where is_valid_length raises ValueError: a string that float rejects *)
IsValidLengthRaises(length_constraints) ==
    \E i \in DOMAIN ConstraintsOf(length_constraints) :
       /\ ConstraintsOf(length_constraints)[i].kind = "str"
       /\ ConstraintValue(ConstraintsOf(length_constraints)[i].s) = <<>>

(* is_valid_length(length, length_constraints, tolerance) *)
is_valid_length(length, length_constraints, tolerance) ==
    \E i \in DOMAIN ConstraintsOf(length_constraints) :
       IF ConstraintsOf(length_constraints)[i].kind = "str"
       THEN str_constraint(ConstraintsOf(length_constraints)[i].s, length, tolerance)
       ELSE Abs(length - ConstraintsOf(length_constraints)[i].v) < tolerance

(***************************************************************************)
(* The length specification: is_valid_length is called once with a length, *)
(* constraints and a tolerance.                                            *)
(***************************************************************************)
MaxCons == 2

NumberConstraint(v) == [kind |-> "number", v |-> v, s |-> <<>>]

StrConstraint(s) == [kind |-> "str", v |-> 0, s |-> s]

(* 2, 3, ">2", "<2.5", ">=2", "<=2", "2", "2.5", ">-1" and "=>2" *)
ConstraintItems ==
    {NumberConstraint(2 * RibbonUnit), NumberConstraint(3 * RibbonUnit)}
      \cup {StrConstraint(s) :
               s \in {<<">", "2">>, <<"<", "2", ".", "5">>, <<">", "=", "2">>,
                      <<"<", "=", "2">>, <<"2">>, <<"2", ".", "5">>,
                      <<">", "-", "1">>, <<"=", ">", "2">>}}

RECURSIVE SeqsUpTo(_, _)
SeqsUpTo(S, n) ==
    IF n = 0 THEN {<<>>}
    ELSE SeqsUpTo(S, n - 1) \cup {Append(q, e) : q \in SeqsUpTo(S, n - 1), e \in S}

ConstraintArgs ==
    {[list |-> TRUE, items |-> q] : q \in SeqsUpTo(ConstraintItems, MaxCons)}
      \cup {[list |-> FALSE, items |-> <<c>>] : c \in ConstraintItems}

(* lengths from 1 to 3 in steps of 1 / RibbonUnit *)
Lengths == RibbonUnit .. 3 * RibbonUnit

Tolerances == {1, 2}

InitLength ==
    /\ rects = <<>>
    /\ bounds = Rect(0, 0, FALSE)
    /\ arranger = <<>>
    /\ results = <<>>
    /\ outcome = "ok"
    /\ \E length \in Lengths, cs \in ConstraintArgs, tolerance \in Tolerances :
          call = [op |-> "args", length |-> length, length_constraints |-> cs,
                  tolerance |-> tolerance]

IsValidLengthReturns ==
    /\ call.op = "args"
    /\ ~IsValidLengthRaises(call.length_constraints)
    /\ results' = is_valid_length(call.length, call.length_constraints, call.tolerance)
    /\ call' = [call EXCEPT !.op = "is_valid_length"]
    /\ UNCHANGED <<rects, bounds, outcome, arranger>>

IsValidLengthRaised ==
    /\ call.op = "args"
    /\ IsValidLengthRaises(call.length_constraints)
    /\ outcome' = "ValueError"
    /\ call' = [call EXCEPT !.op = "is_valid_length"]
    /\ UNCHANGED <<rects, bounds, results, arranger>>

NextLength == IsValidLengthReturns \/ IsValidLengthRaised

SpecLength == InitLength /\ [][NextLength]_vars

(***************************************************************************)
(* The coordinate selectors (cq_selectors.py).  An object is the sequence  *)
(* of its vertices, a vertex is <<X, Y, Z>>.  The keywords of a            *)
(* constructor call are a record of optional values.                       *)
(***************************************************************************)
(* HasCoordinateSelector.__init__(coords, min_points, tolerance) *)
HasCoordinateSelector(coords, min_points, tolerance) ==
    [coords |-> coords, min_points |-> min_points, tolerance |-> tolerance]

(* TRUE where the call HasXCoordinateSelector(coords, **kw) raises         *)
(* TypeError: __init__ has no parameter all_points                         *)
SelectorRaises(kw) == kw.all_points # <<>>

(* HasXCoordinateSelector(coords, **kw), and the Y and Z classes alike *)
HasAxisCoordinateSelector(coords, kw) ==
    HasCoordinateSelector(coords, IF kw.min_points = <<>> THEN 1 ELSE kw.min_points[1],
                          kw.tolerance[1])

RECURSIVE CountTrue(_)
CountTrue(bs) == IF bs = <<>> THEN 0 ELSE (IF Head(bs) THEN 1 ELSE 0) + CountTrue(Tail(bs))

(* count_matching_vertices(vertices, coord) *)
count_matching_vertices(self, vertices, coord) ==
    CountTrue([i \in DOMAIN vertices |->
                  is_valid_length(vertices[i][IF upper(coord) = "X" THEN 1
                                              ELSE IF upper(coord) = "Y" THEN 2 ELSE 3],
                                  self.coords, self.tolerance)])

(* object_vertices(objs): each object with its vertices *)
object_vertices(objs) == [i \in DOMAIN objs |-> <<objs[i], objs[i]>>]

(* filter(objectList) of the class of the axis coord *)
filter(self, objectList, coord) ==
    SelectSeq(objectList,
              LAMBDA o : count_matching_vertices(self, o, coord) >= self.min_points)

(***************************************************************************)
(* The selector specification: a coordinate selector is constructed, then  *)
(* it filters one list of objects.                                         *)
(***************************************************************************)
MaxObjs == 2

(* the corners of a box of 2 by 2 by 2 *)
BoxVertices ==
    {<<x, y, z>> : x \in {0, 2 * RibbonUnit}, y \in {0, 2 * RibbonUnit},
                   z \in {0, 2 * RibbonUnit}}

(* the twelve edges of the box, and two of its vertices *)
SelObjects ==
    {e \in BoxVertices \X BoxVertices :
        \E i \in 1 .. 3 : e[2][i] = 2 * RibbonUnit /\ e[1] = [e[2] EXCEPT ![i] = 0]}
      \cup {<<<<0, 0, 0>>>>, <<<<2 * RibbonUnit, 2 * RibbonUnit, 2 * RibbonUnit>>>>}

SelKeywords ==
    {[min_points |-> m, all_points |-> a, tolerance |-> <<1>>] :
        m \in {<<>>, <<1>>, <<2>>}, a \in {<<>>, <<TRUE>>}}

(* the coords 2, [0, '>=2'] and '<1' *)
SelCoords ==
    {[list |-> FALSE, items |-> <<NumberConstraint(2 * RibbonUnit)>>],
     [list |-> TRUE, items |-> <<NumberConstraint(0), StrConstraint(<<">", "=", "2">>)>>],
     [list |-> FALSE, items |-> <<StrConstraint(<<"<", "1">>)>>]}

InitSelector ==
    /\ rects = <<>>
    /\ bounds = Rect(0, 0, FALSE)
    /\ results = <<>>
    /\ \E coord \in {"X", "Y", "Z"}, coords \in SelCoords, kw \in SelKeywords :
          /\ call = [op |-> "Selector", coord |-> coord, coords |-> coords, kw |-> kw,
                     objectList |-> <<>>]
          /\ outcome = IF SelectorRaises(kw) THEN "TypeError" ELSE "ok"
          /\ arranger = IF SelectorRaises(kw) THEN <<>>
                        ELSE <<HasAxisCoordinateSelector(coords, kw)>>

(* selector.filter(objectList) *)
FilterCall ==
    /\ call.op = "Selector"
    /\ outcome = "ok"
    /\ \E objectList \in SeqsUpTo(SelObjects, MaxObjs) :
          /\ results' = filter(arranger[1], objectList, call.coord)
          /\ call' = [call EXCEPT !.op = "filter", !.objectList = objectList]
    /\ UNCHANGED <<rects, bounds, outcome, arranger>>

NextSelector == FilterCall

SpecSelector == InitSelector /\ [][NextSelector]_vars

(***************************************************************************)
(* SpecRelayout: a RectLayout of rects with their own alignments is laid   *)
(* out row-wise or column-wise, with or without gutters, either fresh or   *)
(* after an earlier layout of the same RectLayout.                         *)
(***************************************************************************)
(* Rect.overlaps(other) *)
overlaps(self, other) ==
    IF self.bottom_up
    THEN /\ self.right > other.left /\ self.left < other.right
         /\ self.top < other.bottom /\ self.bottom > other.top
    ELSE /\ self.right > other.left /\ self.left < other.right
         /\ self.top > other.bottom /\ self.bottom < other.top

(* the sizes and the alignments a rect of this specification is built with *)
CellSizes == {s \in (1 .. MaxDim) \X (1 .. MaxDim) : s # <<MaxDim, MaxDim>>}

CellAligns == {<<"left", "top">>, <<"centre", "centre">>, <<"right", "bottom">>}

CellLists == UNION {[1 .. n -> CellSizes \X CellAligns] : n \in 1 .. MaxRects}

InitRelayout ==
    /\ \E cells \in CellLists :
          rects = [i \in DOMAIN cells |->
                      RectCell(cells[i][1][1], cells[i][1][2], cells[i][2][1], cells[i][2][2])]
    /\ bounds = Rect(0, 0, FALSE)
    /\ call = [op |-> "init", nth |-> 0, last |-> FALSE]
    /\ outcome = "ok"
    /\ results = <<>>
    /\ arranger = NoArranger

(* the nth layout call of the RectLayout, by layout_row_wise or            *)
(* layout_col_wise                                                         *)
Relayout(col_wise, b, shape, hard, grid, gutter, last) ==
    /\ rects' = (IF col_wise THEN layout_col_wise(rects, b, 1, shape, hard, grid, gutter)
                 ELSE layout_row_wise(rects, b, 1, shape, hard, grid, gutter)).rs
    /\ outcome' = IF validate_shape(rects, shape) THEN "ok" ELSE "ValueError"
    /\ bounds' = b
    /\ call' = [op |-> IF col_wise THEN "layout_col_wise" ELSE "layout_row_wise",
                nth |-> call.nth + 1, last |-> last, shape |-> shape,
                hard_bounds_limit |-> hard, grid_align |-> grid, gutter |-> gutter]
    /\ UNCHANGED <<results, arranger>>

(* an earlier layout: column-wise in one column of a narrow container, or  *)
(* row-wise on a grid with gutters in a wide one                           *)
EarlierLayoutCall ==
    /\ call.op = "init"
    /\ \E col_wise \in BOOLEAN :
          Relayout(col_wise, IF col_wise THEN Rect(1, 1, FALSE) ELSE Rect(MaxBound, MaxBound, FALSE),
                   IF col_wise THEN <<MaxRects, 1>> ELSE <<>>, FALSE, ~col_wise, 2, FALSE)

RelayoutShapes == {<<>>, <<1, 1>>, <<1, MaxRects>>, <<2, 2>>, <<MaxRects, 1>>}

RelayoutRowWiseCall ==
    /\ ~call.last
    /\ \E bs \in {1, MaxBound}, shape \in RelayoutShapes, hard \in BOOLEAN, grid \in BOOLEAN,
          gutter \in {0, 2} :
          Relayout(FALSE, Rect(bs, bs, FALSE), shape, hard, grid, gutter, TRUE)

RelayoutColWiseCall ==
    /\ ~call.last
    /\ \E bs \in {1, MaxBound}, shape \in RelayoutShapes, hard \in BOOLEAN, grid \in BOOLEAN,
          gutter \in {0, 2} :
          Relayout(TRUE, Rect(bs, bs, FALSE), shape, hard, grid, gutter, TRUE)

NextRelayout == EarlierLayoutCall \/ RelayoutRowWiseCall \/ RelayoutColWiseCall

SpecRelayout == InitRelayout /\ [][NextRelayout]_vars

(***************************************************************************)
(* SpecPre: a ShapeLayoutArranger is built as in SpecWise and one layout   *)
(* call is made of it with any of the pre-transform keywords sort_dim,     *)
(* sort_area, sort_vol and alt_rotate.                                     *)
(***************************************************************************)
(* sort_area: left out, "xy", or "-YZ" *)
SortAreas == {<<>>, <<<<"x", "y">>>>, <<<<"-", "Y", "Z">>>>}

(* sort_vol: left out, "", or "-" *)
SortVols == {<<>>, <<<<>>>>, <<<<"-">>>>}

(* alt_rotate: left out, "X", or "z 90" *)
AltRotates == {<<>>, <<<<"X">>>>, <<<<"z", " ", "9", "0">>>>}

PreKws ==
    {PreKw(kw[1], kw[2], kw[3], kw[4]) : kw \in SortDims \X SortAreas \X SortVols \X AltRotates}

PreLayoutXWiseCall ==
    /\ call.op = "ShapeLayoutArranger"
    /\ \E kw \in PreKws : LayoutXWise(<<<<>>, <<>>>>, kw)

PreLayoutYWiseCall ==
    /\ call.op = "ShapeLayoutArranger"
    /\ \E kw \in PreKws : LayoutYWise(<<<<>>, <<>>>>, kw)

PreLayoutZWiseCall ==
    /\ call.op = "ShapeLayoutArranger"
    /\ \E kw \in PreKws : LayoutZWise(<<<<>>, <<>>>>, kw)

NextPre == PreLayoutXWiseCall \/ PreLayoutYWiseCall \/ PreLayoutZWiseCall

SpecPre == InitWise /\ [][NextPre]_vars

(***************************************************************************)
(* SpecReads: a ShapeLayoutArranger is built with any of the margin        *)
(* keywords and then only read: x_avail / y_avail / z_avail, the gaps,     *)
(* enough_space and whitespace, up to MaxReads times in any order.  No     *)
(* fixed coordinate is ever set.  results holds what the last read         *)
(* returned.                                                               *)
(***************************************************************************)
MaxReads == 2

(* whitespace(axis) of the arranger: the test reads the inset as it        *)
(* stands, the quotient is taken of x_avail, which computes the inset, and *)
(* of the length of the inset after that                                   *)
arranger_whitespace(a, axis) ==
    IF upper(axis) \in {"X", "Y", "Z"} /\ Abs(inset_len(a, upper(axis))) > 0
    THEN [num |-> CASE upper(axis) = "X" -> x_avail(a)
                    [] upper(axis) = "Y" -> y_avail(a)
                    [] upper(axis) = "Z" -> z_avail(a),
          den |-> inset_len(_compute_inset(a), upper(axis))]
    ELSE [num |-> 0, den |-> 1]

(* the arranger after whitespace(axis) *)
AfterWhitespace(a, axis) ==
    IF upper(axis) \in {"X", "Y", "Z"} /\ Abs(inset_len(a, upper(axis))) > 0
    THEN _compute_inset(a)
    ELSE a

InitReads ==
    /\ rects = <<>>
    /\ bounds = Rect(0, 0, FALSE)
    /\ outcome = "ok"
    /\ results = <<>>
    /\ \E sizes \in SolidLists, m \in MarginArgs, method \in Methods :
          Built(ScaledSolids(sizes, ArrUnit(Len(sizes))),
                Scaled(BoundsTuple(WiseBox), ArrUnit(Len(sizes))),
                ArrangerArgs(m, method, <<"centre", "centre", "centre">>, ArrUnit(Len(sizes))))

(* the number of reads made of the arranger *)
RECURSIVE ReadsIn(_)
ReadsIn(c) == IF c.op = "ShapeLayoutArranger" THEN 0 ELSE 1 + ReadsIn(c.prev)

(* the state a read leaves *)
ReadReturns(op, axis, value, a) ==
    /\ results' = value
    /\ arranger' = a
    /\ call' = [op |-> op, axis |-> axis, bounds |-> call.bounds, kw |-> call.kw,
                prev |-> call]
    /\ UNCHANGED <<rects, bounds, outcome>>

(* arranger.x_avail, y_avail or z_avail *)
ReadAvailCall ==
    /\ ReadsIn(call) < MaxReads
    /\ \E axis \in {"X", "Y", "Z"} : Avail(axis)

(* arranger.x_gap, y_gap or z_gap *)
ReadGapCall ==
    /\ ReadsIn(call) < MaxReads
    /\ \E axis \in {"X", "Y", "Z"} :
          ReadReturns("gap", axis,
                      CASE axis = "X" -> x_gap(arranger)
                        [] axis = "Y" -> y_gap(arranger)
                        [] axis = "Z" -> z_gap(arranger),
                      _compute_inset(arranger))

(* arranger.enough_space(axis) *)
ReadEnoughSpaceCall ==
    /\ ReadsIn(call) < MaxReads
    /\ \E axis \in {"X", "Y", "Z"} : EnoughSpace(axis)

(* arranger.whitespace(axis) *)
ReadWhitespaceCall ==
    /\ ReadsIn(call) < MaxReads
    /\ \E axis \in {"X", "Y", "Z"} :
          ReadReturns("whitespace", axis, arranger_whitespace(arranger, axis),
                      AfterWhitespace(arranger, axis))

NextReads == ReadAvailCall \/ ReadGapCall \/ ReadEnoughSpaceCall \/ ReadWhitespaceCall

SpecReads == InitReads /\ [][NextReads]_vars

(***************************************************************************)
(* Rect moves (cq_geometry.py).  SpecMove: a Rect is built (bounds) and    *)
(* moved up to MaxMoves times by move_to, move_by and the four corner      *)
(* moves.  call.before is the rect as the last move found it and call.pt   *)
(* the argument of the move.                                               *)
(***************************************************************************)
(* The point argument of a move is a Point, a tuple, or a number followed  *)
(* by py; it is held as a record of its kind and coordinates (y is unused  *)
(* for a number).  x, y as move_to and move_by unpack them:                *)
XYOfPtPy(pt, py) ==
    IF pt.kind = "Point" THEN <<pt.x, pt.y>>
    ELSE IF pt.kind = "tuple" THEN <<pt.x, pt.y>>
    ELSE <<pt.x, py>>

(* _xy_from_pt(pt) of a Point or a tuple *)
_xy_from_pt(pt) == <<pt.x, pt.y>>

(* move_to(pt, py): the centre is put at the point *)
move_to(r, x, y) ==
    [r EXCEPT !.left = x - r.width \div 2, !.right = x + r.width \div 2,
              !.top = IF r.bottom_up THEN y - r.height \div 2 ELSE y + r.height \div 2,
              !.bottom = IF r.bottom_up THEN y + r.height \div 2 ELSE y - r.height \div 2]

(* move_top_right_to as it would be if bottom_up were not looked at *)
move_top_right_to_top_down(r, x, y) ==
    [r EXCEPT !.right = x, !.left = x - r.width, !.top = y, !.bottom = y - r.height]

move_top_right_to(r, x, y) ==
    [r EXCEPT !.right = x, !.left = x - r.width, !.top = y,
              !.bottom = IF r.bottom_up THEN y + r.height ELSE y - r.height]

move_bottom_right_to(r, x, y) ==
    [r EXCEPT !.right = x, !.left = x - r.width, !.bottom = y,
              !.top = IF r.bottom_up THEN y - r.height ELSE y + r.height]

MaxMoves == 2

(* Rect(width, height, bottomUp) of sides up to MaxSide, in both           *)
(* orientations                                                            *)
MoveRects == {Rect(w, h, b) : w \in 1 .. MaxSide, h \in 1 .. MaxSide, b \in BOOLEAN}

MoveCoords == {0 - 3, 0, 2}

(* the point arguments of move_to and move_by, and py *)
MovePtPys ==
    {<<[kind |-> k, x |-> x, y |-> IF k = "number" THEN 0 ELSE y], y>> :
        k \in {"Point", "tuple", "number"}, x \in MoveCoords, y \in MoveCoords}

(* the point arguments of the corner moves *)
MovePts == {[kind |-> k, x |-> x, y |-> y] : k \in {"Point", "tuple"}, x \in MoveCoords, y \in MoveCoords}

InitMove ==
    /\ rects = <<>>
    /\ outcome = "ok"
    /\ results = <<>>
    /\ arranger = <<>>
    /\ bounds \in MoveRects
    /\ call = [op |-> "Rect", moves |-> 0, before |-> bounds]

(* the state a move leaves *)
Moved(op, pt, r) ==
    /\ call.moves < MaxMoves
    /\ bounds' = r
    /\ call' = [op |-> op, pt |-> pt, moves |-> call.moves + 1, before |-> bounds]
    /\ UNCHANGED <<rects, outcome, results, arranger>>

MoveToCall ==
    \E a \in MovePtPys :
        Moved("move_to", a, move_to(bounds, XYOfPtPy(a[1], a[2])[1], XYOfPtPy(a[1], a[2])[2]))

MoveByCall ==
    \E a \in MovePtPys :
        Moved("move_by", a, move_by(bounds, XYOfPtPy(a[1], a[2])[1], XYOfPtPy(a[1], a[2])[2]))

MoveTopLeftToCall ==
    \E pt \in MovePts :
        Moved("move_top_left_to", pt,
              move_top_left_to(bounds, _xy_from_pt(pt)[1], _xy_from_pt(pt)[2]))

MoveTopRightToCall ==
    \E pt \in MovePts :
        Moved("move_top_right_to", pt,
              move_top_right_to(bounds, _xy_from_pt(pt)[1], _xy_from_pt(pt)[2]))

MoveBottomLeftToCall ==
    \E pt \in MovePts :
        Moved("move_bottom_left_to", pt,
              move_bottom_left_to(bounds, _xy_from_pt(pt)[1], _xy_from_pt(pt)[2]))

MoveBottomRightToCall ==
    \E pt \in MovePts :
        Moved("move_bottom_right_to", pt,
              move_bottom_right_to(bounds, _xy_from_pt(pt)[1], _xy_from_pt(pt)[2]))

NextMove ==
    \/ MoveToCall \/ MoveByCall \/ MoveTopLeftToCall \/ MoveTopRightToCall
    \/ MoveBottomLeftToCall \/ MoveBottomRightToCall

SpecMove == InitMove /\ [][NextMove]_vars

(***************************************************************************)
(* Properties of one layout call (checked under Spec).                     *)
(***************************************************************************)
RowWiseDone == call.op = "layout_row_wise" /\ outcome = "ok"

ColWiseDone == call.op = "layout_col_wise" /\ outcome = "ok"

PositiveWidths == \A i \in DOMAIN rects : rects[i].width > 0

PositiveHeights == \A i \in DOMAIN rects : rects[i].height > 0

(* C3: with hard_bounds_limit=True and every rect no wider than the        *)
(* container, layout_row_wise leaves the bounding rect of the rects no     *)
(* wider than the container, for any valid shape and for grid_align False  *)
(* or True; layout_col_wise likewise keeps the layout height within the    *)
(* container height when every rect is no taller than the container.       *)
HardLimitKeepsWithinBounds ==
    /\ (RowWiseDone /\ call.hard_bounds_limit
          /\ \A i \in DOMAIN rects : rects[i].width <= bounds.width)
       => bounding_rect(rects).width <= bounds.width
    /\ (ColWiseDone /\ call.hard_bounds_limit
          /\ \A i \in DOMAIN rects : rects[i].height <= bounds.height)
       => bounding_rect(rects).height <= bounds.height

(* C4: with a shape (R, C) and hard_bounds_limit False, layout_row_wise    *)
(* puts the i-th rect (0-based) of a list of positive-width rects in row   *)
(* i div C, column i mod C whatever the container width; layout_col_wise   *)
(* puts the i-th rect of a list of positive-height rects in column         *)
(* i div R, row i mod R whatever the container height.                     *)
ShapeDecidesCells ==
    /\ (RowWiseDone /\ call.shape # <<>> /\ ~call.hard_bounds_limit /\ PositiveWidths)
       => \A i \in DOMAIN rects :
             /\ rects[i].row = (i - 1) \div call.shape[2]
             /\ rects[i].col = (i - 1) % call.shape[2]
    /\ (ColWiseDone /\ call.shape # <<>> /\ ~call.hard_bounds_limit /\ PositiveHeights)
       => \A i \in DOMAIN rects :
             /\ rects[i].col = (i - 1) \div call.shape[1]
             /\ rects[i].row = (i - 1) % call.shape[1]

(* a row-wise layout whose rows were broken by the shape although the      *)
(* container is narrower than one row, and a column-wise one likewise      *)
ShapeDecidesCellsWitness ==
    \/ /\ RowWiseDone /\ call.shape = <<2, 2>> /\ ~call.hard_bounds_limit /\ PositiveWidths
       /\ Len(rects) = 3
       /\ bounds.width < rects[1].width + rects[2].width
       /\ rects[2].row = 0 /\ rects[2].col = 1 /\ rects[3].row = 1
    \/ /\ ColWiseDone /\ call.shape = <<2, 2>> /\ ~call.hard_bounds_limit /\ PositiveHeights
       /\ Len(rects) = 3
       /\ bounds.height < rects[1].height + rects[2].height
       /\ rects[2].col = 0 /\ rects[2].row = 1 /\ rects[3].col = 1

(* C5: distortion(bounds) is the deviation between the aspect ratio of the *)
(* layout and that of the container: for bounds of non-zero width and      *)
(* height it is 0 whenever the bounding rect of the layout has the same    *)
(* width-to-height ratio as bounds, and greater than 0 whenever the two    *)
(* ratios differ.                                                          *)
DistortionIsAspectRatioDeviation ==
    ((RowWiseDone \/ ColWiseDone) /\ bounds.width # 0 /\ bounds.height # 0
        /\ bounding_rect(rects).height # 0)
    => LET br == bounding_rect(rects)
           same_ratio == br.width * bounds.height = bounds.width * br.height
       IN  /\ same_ratio => distortion(rects, bounds).num = 0
           /\ ~same_ratio => distortion(rects, bounds).num > 0

(* C6: whitespace is 1 - (sum of the rect areas) / (area of the bounding   *)
(* rect of all rects), and after a layout_row_wise or layout_col_wise of   *)
(* rects of positive width and height it satisfies 0 <= whitespace < 1.    *)
WhitespaceIsAFraction ==
    ((RowWiseDone \/ ColWiseDone) /\ PositiveWidths /\ PositiveHeights)
    => /\ whitespace(rects).den = bounding_rect(rects).width * bounding_rect(rects).height
       /\ whitespace(rects).den - whitespace(rects).num
             = SeqSum([i \in DOMAIN rects |-> rects[i].width * rects[i].height])
       /\ whitespace(rects).den > 0
       /\ 0 <= whitespace(rects).num
       /\ whitespace(rects).num < whitespace(rects).den

(* a layout of several rows with unused area in its bounding rect *)
WhitespaceIsAFractionWitness ==
    /\ (RowWiseDone \/ ColWiseDone) /\ PositiveWidths /\ PositiveHeights
    /\ Len(rects) = 3 /\ row_count(rects) = 2 /\ col_count(rects) = 2
    /\ whitespace(rects).num > 0

(***************************************************************************)
(* Properties of the reshape search (checked under SpecReshape).           *)
(***************************************************************************)
ReshapeDone == call.op = "optimize_layout" /\ call.strategy = "reshape" /\ outcome = "ok"

(* the candidate with the lowest score, the first one tried among equals *)
LowestScoreFirst(rs) ==
    CHOOSE i \in DOMAIN rs :
        /\ \A j \in DOMAIN rs : ~ScoreLess(rs[j], rs[i], MaxDistortion(rs))
        /\ \A j \in 1 .. i - 1 : ScoreLess(rs[i], rs[j], MaxDistortion(rs))

(* C1: after optimize_layout(bounds, strategy="reshape") returns, every    *)
(* rect sits in the (row, col) cell it had in the candidate layout with    *)
(* the lowest score among the shapes tried, the first one tried when       *)
(* several candidates tie for the lowest score.                            *)
ReshapeKeepsBestCandidate ==
    ReshapeDone => CellsOf(rects) = results[LowestScoreFirst(results)].cells

(***************************************************************************)
(* Properties of the resize search (checked under SpecResize).             *)
(***************************************************************************)
ResizeDone == call.op = "optimize_layout" /\ call.strategy = "resize" /\ outcome = "ok"

(* the layouts tried whose whitespace no other layout tried beats *)
LowestWhitespace(rs) ==
    {i \in DOMAIN rs : \A j \in DOMAIN rs : RatioLeq(rs[i].whitespace, rs[j].whitespace)}

(* C2: after optimize_layout(bounds, strategy="resize") returns, the       *)
(* layout in place is the one made with a container size that gave the     *)
(* lowest row-wise whitespace (column-wise when col_wise) among all the    *)
(* container sizes tried, so its whitespace is no higher than that of the  *)
(* initial layout in the original bounds.                                  *)
ResizeKeepsLowestWhitespace ==
    ResizeDone =>
        /\ \E i \in LowestWhitespace(results) :
              /\ CellsOf(rects) = results[i].cells
              /\ wise_whitespace(rects, call.kw) = results[i].whitespace
        /\ RatioLeq(wise_whitespace(rects, call.kw), results[1].whitespace)

(* a search over rects of positive size in which a shrunken container gave *)
(* a worse layout than the one before it, so that the search fell back     *)
ResizeKeepsLowestWhitespaceWitness ==
    /\ ResizeDone /\ PositiveWidths /\ PositiveHeights
    /\ Len(results) >= 3
    /\ \E j \in 2 .. Len(results) :
          /\ RatioLess(results[j - 1].whitespace, results[j].whitespace)
          /\ results[j].bounds # results[1].bounds
          /\ RatioLess(wise_whitespace(rects, call.kw), results[j].whitespace)

(***************************************************************************)
(* Properties of a ShapeLayoutArranger (checked under SpecArr).            *)
(***************************************************************************)
Constructed == call.op = "ShapeLayoutArranger"

EnoughSpaceDone == call.op = "enough_space"

ObjCoordsDone == call.op = "obj_coords"

(* the size of solid i along the axis of the last call *)
AxisSize(i) == arranger.solids[i][axis_idx(call.axis) + 1]

AxisSizeSum == SizeSum(arranger.solids, axis_idx(call.axis))

(* the inset along the axis of the last call *)
AxisInsetMin == inset_min(arranger, upper(call.axis))

AxisInsetLen == inset_len(arranger, upper(call.axis))

AxisInsetMax ==
    CASE upper(call.axis) = "X" -> arranger.inset.xmax
      [] upper(call.axis) = "Y" -> arranger.inset.ymax
      [] upper(call.axis) = "Z" -> arranger.inset.zmax

(* C7: enough_space(axis) returns True exactly when the objects fit within *)
(* the inset along the axis: with method equal_spaced, when the sum of the *)
(* sizes is at most the inset length; with method periodic, when every     *)
(* size is at most the inset length divided by the number of objects.      *)
EnoughSpaceIffObjectsFit ==
    EnoughSpaceDone =>
        results = IF call.kw.method = "equal_spaced"
                  THEN AxisSizeSum <= AxisInsetLen
                  ELSE \A i \in DOMAIN arranger.solids :
                          AxisSize(i) * Len(arranger.solids) <= AxisInsetLen

(* the margin of a side as the keywords of the constructor give it: the   *)
(* margin of the axis, else the margin of the side, else margin            *)
GivenMargin(kw, axis_margin, side_margin) ==
    IF kw[axis_margin] # <<>> THEN kw[axis_margin][1]
    ELSE IF kw[side_margin] # <<>> THEN kw[side_margin][1]
    ELSE kw.margin

(* C8: the inset is the bounds minus the margins, each margin applied to   *)
(* its own side (left / right on X, front / back on Y, bottom / top on Z); *)
(* a margin not given takes the value of margin, and x_margin, y_margin    *)
(* and z_margin set both margins of their axis.                            *)
InsetIsBoundsMinusMargins ==
    Constructed =>
        /\ arranger.inset.xmin = call.bounds[1] + GivenMargin(call.kw, "x_margin", "left_margin")
        /\ arranger.inset.xmax = call.bounds[2] - GivenMargin(call.kw, "x_margin", "right_margin")
        /\ arranger.inset.ymin = call.bounds[3] + GivenMargin(call.kw, "y_margin", "front_margin")
        /\ arranger.inset.ymax = call.bounds[4] - GivenMargin(call.kw, "y_margin", "back_margin")
        /\ arranger.inset.zmin = call.bounds[5] + GivenMargin(call.kw, "z_margin", "bottom_margin")
        /\ arranger.inset.zmax = call.bounds[6] - GivenMargin(call.kw, "z_margin", "top_margin")

(* the centre of solid i in interval i of the n equal intervals of the    *)
(* inset, under an alignment                                               *)
PeriodicCentre(i, al) ==
    IF al \in {"left", "front", "bottom", "min"}
    THEN AxisInsetMin + (i - 1) * (AxisInsetLen \div Len(arranger.solids)) + AxisSize(i) \div 2
    ELSE IF al \in {"right", "back", "top", "max"}
    THEN AxisInsetMin + i * (AxisInsetLen \div Len(arranger.solids)) - AxisSize(i) \div 2
    ELSE AxisInsetMin + (i - 1) * (AxisInsetLen \div Len(arranger.solids))
            + (AxisInsetLen \div Len(arranger.solids)) \div 2

(* C9: with method periodic, obj_coords(axis) divides the inset along the  *)
(* axis into n equal intervals and returns for object i a centre obeying   *)
(* the alignment of the axis: the min edge of interval i plus half the     *)
(* size for a min alignment, its max edge minus half the size for a max    *)
(* alignment, and its centre for centre; on each of X, Y and Z.            *)
PeriodicCoordsObeyAlignment ==
    (ObjCoordsDone /\ call.kw.method = "periodic") =>
        /\ Len(results) = Len(arranger.solids)
        /\ \A i \in DOMAIN arranger.solids :
              results[i] = PeriodicCentre(i, axis_align(arranger, upper(call.axis)))

(* the faces of solid i about the centre returned for it *)
MinFace(i) == results[i] - AxisSize(i) \div 2

MaxFace(i) == results[i] + AxisSize(i) \div 2

LayoutDone ==
    call.op \in {"layout_x_wise", "layout_y_wise", "layout_z_wise"} /\ outcome = "ok"

(* the arranger with no coordinate fixed and the inset of its bounds and   *)
(* margins                                                                 *)
RealArranger ==
    SetInset([arranger EXCEPT !.fixed_x = <<>>, !.fixed_y = <<>>, !.fixed_z = <<>>])

(* a layout call made without at_ arguments *)
WithoutFixed == LayoutDone /\ call.at = <<<<>>, <<>>>>

(* a layout call made with at_ arguments *)
WithFixed(c) ==
    c.op \in {"layout_x_wise", "layout_y_wise", "layout_z_wise"} /\ c.at # <<<<>>, <<>>>>

(* C11: the at_x / at_y / at_z arguments of a layout call force those      *)
(* coordinates for that call only: the fixed values are cleared when the   *)
(* call returns, a layout call made without them positions the objects     *)
(* from the inset limits and alignments again, and enough_space and the    *)
(* avail queries made afterwards are computed from the real inset.         *)
FixedCoordinatesLastOneCall ==
    /\ LayoutDone =>
          arranger.fixed_x = <<>> /\ arranger.fixed_y = <<>> /\ arranger.fixed_z = <<>>
    /\ WithoutFixed =>
          /\ arranger.inset = RealArranger.inset
          /\ results.coords = Placed(RealArranger, call.axis, obj_coords(RealArranger, call.axis))
    /\ call.op = "enough_space" => results = enough_space(RealArranger, call.axis)
    /\ call.op = "avail" =>
          results = inset_len(RealArranger, call.axis)
                      - SizeSum(arranger.solids, axis_idx(call.axis))

(* a layout call made with sort_dim *)
SortedCall(c) ==
    c.op \in {"layout_x_wise", "layout_y_wise", "layout_z_wise"} /\ c.args.sort_dim # <<>>

(* the size of solid s on the axis that the sort_dim argument dim names *)
SortSize(s, dim) == s[axis_idx(upper(dim[Len(dim)])) + 1]

(* TRUE where the sizes k1, k2 of an earlier and a later object are in the *)
(* order that dim asks for                                                 *)
InSortOrder(k1, k2, dim) == IF dim[1] = "-" THEN k1 >= k2 ELSE k1 <= k2

(* TRUE where after is before put in the order of dim by the permutation p *)
(* of its places, objects of equal size kept in the order they had         *)
StablySortedBy(p, before, after, dim) ==
    /\ \A i, j \in DOMAIN p : i # j => p[i] # p[j]
    /\ \A i \in DOMAIN p : after[i] = before[p[i]]
    /\ \A i, j \in DOMAIN p :
          i < j => /\ InSortOrder(SortSize(after[i], dim), SortSize(after[j], dim), dim)
                   /\ SortSize(after[i], dim) = SortSize(after[j], dim) => p[i] < p[j]

(* C13: a layout call with sort_dim 'X', 'Y' or 'Z' reorders the objects   *)
(* by ascending size on that axis, by descending size with a '-' prefix,   *)
(* objects of equal size keeping their previous relative order; the        *)
(* coordinate and size lists returned are in the new order (entry i        *)
(* belongs to object i), and the new order persists for later layout calls *)
(* made without sort_dim.                                                  *)
SortDimReordersObjects ==
    /\ (LayoutDone /\ SortedCall(call)) =>
          \E p \in [DOMAIN call.solids_before -> DOMAIN call.solids_before] :
             StablySortedBy(p, call.solids_before, arranger.solids, call.args.sort_dim[1])
    /\ LayoutDone =>
          /\ results.sizes = arranger.solids
          /\ results.coords = Placed(arranger, call.axis, obj_coords(arranger, call.axis))
    /\ (LayoutDone /\ ~SortedCall(call)) => arranger.solids = call.solids_before

(* a layout call without sort_dim made after one whose sort_dim "-z" moved *)
(* objects and met two different objects of equal size                     *)
SortDimReordersObjectsWitness ==
    /\ LayoutDone /\ ~SortedCall(call)
    /\ SortedCall(call.prev) /\ call.prev.args.sort_dim[1] = <<"-", "z">>
    /\ call.prev.solids_before # arranger.solids
    /\ \E i, j \in DOMAIN arranger.solids :
          /\ i < j /\ arranger.solids[i] # arranger.solids[j]
          /\ arranger.solids[i][3] = arranger.solids[j][3]

(***************************************************************************)
(* Properties of a GridLayoutArranger (checked under SpecGrid).            *)
(***************************************************************************)
GridLayoutDone == call.op = "layout" /\ outcome = "ok"

(* twice the min and the max face of solid i on the axis of index k, from  *)
(* the coordinates and sizes returned                                      *)
GridFaceMin(i, k) == 2 * results.coords[i][k] - results.sizes[i][k]

GridFaceMax(i, k) == 2 * results.coords[i][k] + results.sizes[i][k]

(* the solids in the column (on the major axis) or the row (on the minor   *)
(* axis) of solid i                                                        *)
CellMates(i, k) ==
    IF k = axis_idx(major(arranger)) + 1
    THEN {j \in DOMAIN rects : rects[j].col = rects[i].col}
    ELSE {j \in DOMAIN rects : rects[j].row = rects[i].row}

(* solid i sits in its cell on the axis of index k as the word says *)
AlignedInCell(i, k, word) ==
    IF word \in {"min", "left", "front", "bottom"}
    THEN GridFaceMin(i, k) = SetMin({GridFaceMin(j, k) : j \in CellMates(i, k)})
    ELSE IF word \in {"max", "right", "back", "top"}
    THEN GridFaceMax(i, k) = SetMax({GridFaceMax(j, k) : j \in CellMates(i, k)})
    ELSE GridFaceMin(i, k) + GridFaceMax(i, k)
            = SetMin({GridFaceMin(j, k) : j \in CellMates(i, k)})
                + SetMax({GridFaceMax(j, k) : j \in CellMates(i, k)})

(* C12: GridLayoutArranger.layout aligns each object inside its grid cell  *)
(* by the arranger's alignment of each of the two plane axes, treating the *)
(* documented words alike: min, left, front and bottom put the object on   *)
(* the min side of its cell, max, right, back and top on the max side, and *)
(* centre in the middle.                                                   *)
GridAlignsInsideCells ==
    GridLayoutDone =>
        \A i \in DOMAIN results.coords :
            /\ AlignedInCell(i, axis_idx(major(arranger)) + 1,
                             axis_align(arranger, major(arranger)))
            /\ AlignedInCell(i, axis_idx(minor(arranger)) + 1,
                             axis_align(arranger, minor(arranger)))

(***************************************************************************)
(* Properties of the fasteners (checked under SpecFasteners).              *)
(***************************************************************************)
(* the names that stand for an attribute: its own and its aliases *)
OwnNames(key) == {key} \cup ATTR_ALIASES[key]

(* the values given under the names that stand for an attribute *)
OwnValues(key, kwargs) ==
    {kwargs[i][2] : i \in {j \in DOMAIN kwargs : kwargs[j][1] \in OwnNames(key)}}

(* TRUE where obj, built from the keywords alone, has every attribute of   *)
(* names from a keyword that stands for it                                 *)
BuiltFromOwn(obj, names, kwargs) ==
    \A x \in names : obj[x] # <<>> /\ obj[x][1] \in OwnValues(x, kwargs)

(* TRUE where a constructor called without a family raised ValueError      *)
(* exactly when one of names was not supplied, and else built the object   *)
(* from the keywords that stand for each                                   *)
RequiresAll(names) ==
    IF \E x \in names : OwnValues(x, call.kwargs) = {}
    THEN outcome = "ValueError"
    ELSE outcome = "ok" /\ BuiltFromOwn(results, names, call.kwargs)

(* C14: attr_match(key, kwargs) returns the value under key or under one   *)
(* of key's own aliases, and None when there is neither; a CQWasher built  *)
(* without a family raises ValueError unless inner diameter, outer         *)
(* diameter and thickness are each supplied, a CQNut likewise for          *)
(* diameter, height and inner diameter; a keyword that names one attribute *)
(* never supplies a different one.                                         *)
KeywordsSupplyOwnAttribute ==
    /\ call.op = "attr_match" =>
          IF OwnValues(call.key, call.kwargs) = {} THEN results = <<>>
          ELSE results # <<>> /\ results[1] \in OwnValues(call.key, call.kwargs)
    /\ (call.op = "CQWasher" /\ call.family = <<>>) =>
          RequiresAll({"inner_diameter", "outer_diameter", "thickness"})
    /\ (call.op = "CQNut" /\ call.family = <<>>) =>
          RequiresAll({"diameter", "height", "inner_diameter"})

(***************************************************************************)
(* Properties of a Ribbon (checked under SpecRibbon).                      *)
(***************************************************************************)
RenderDone == call.op = "render" /\ call.pc = "done"

(* the number k of path commands *)
PathLen == Len(arranger.commands[1]) - 1

(* the drawing segments: the lines and arcs added to the CadQuery object *)
Segments == SelectSeq(results, LAMBDA e : e.op \in {"lineTo", "threePointArc"})

(* the turn of command c: the angle of an arc, none for a line *)
TurnOf(c) == IF c.name = "arc" THEN c.angle ELSE 0

(* the heading before the j-th segment was drawn *)
HeadingBefore(j) ==
    IF j = 1 THEN arranger.commands[1][1].direction ELSE call.log[j - 1].direction

(* TRUE where the j-th segment was drawn for command c and turned by turn *)
DrawnFor(j, c, turn) ==
    /\ call.log[j].c = c
    /\ call.log[j].direction = HeadingBefore(j) + turn
    /\ Segments[j].op = (IF arranger.commands[1][c].name = "arc" THEN "threePointArc"
                         ELSE "lineTo")

(* C15: render draws the left hand side by parsing the k path commands     *)
(* from first to last, then one end line, then the right hand side by      *)
(* parsing the same k commands in the reverse order with the turn of every *)
(* arc negated, then closes the path: 2k + 1 segments are drawn before the *)
(* closing edge, and the heading after the last segment is the start       *)
(* direction + 180 degrees.                                                *)
RibbonDrawsBothSides ==
    RenderDone =>
       /\ outcome = "ok"
       /\ Len(Segments) = 2 * PathLen + 1 /\ Len(call.log) = 2 * PathLen + 1
       /\ results[1].op = "moveTo"
       /\ \A j \in 1 .. 2 * PathLen + 1 : results[j + 1] = Segments[j]
       /\ \A j \in 1 .. PathLen :
             DrawnFor(j, j + 1, TurnOf(arranger.commands[1][j + 1]))
       /\ call.log[PathLen + 1].c = 0 /\ Segments[PathLen + 1].op = "lineTo"
       /\ \A j \in 1 .. PathLen :
             DrawnFor(PathLen + 1 + j, PathLen + 2 - j,
                      0 - TurnOf(arranger.commands[1][PathLen + 2 - j]))
       /\ call.close_path =>
             Len(results) = 2 * PathLen + 3 /\ results[Len(results)].op = "close"
       /\ ~call.close_path => Len(results) = 2 * PathLen + 2
       /\ arranger.direction = arranger.commands[1][1].direction + 180 * RibbonUnit

(* a closed ribbon of three path commands, a line among them and arcs that *)
(* do not cancel                                                           *)
RibbonDrawsBothSidesWitness ==
    /\ RenderDone /\ call.close_path /\ PathLen = 3
    /\ \E j \in 2 .. 4 : arranger.commands[1][j].name = "line"
    /\ TurnOf(arranger.commands[1][2]) + TurnOf(arranger.commands[1][3])
         + TurnOf(arranger.commands[1][4]) # 0
    /\ Len(Segments) = 7

(* the command list of the ribbon is there and has a first command *)
HasFirstCommand == arranger.commands # <<>> /\ arranger.commands[1] # <<>>

(* TRUE where the description that render is given is one the ribbon must  *)
(* reject: no workplane, no command list, a first command that is not      *)
(* 'start', or a later command that is neither 'line' nor 'arc' (names are *)
(* read without regard to case)                                            *)
InvalidDescription ==
    \/ arranger.workplane = <<>>
    \/ arranger.commands = <<>>
    \/ HasFirstCommand /\ arranger.commands[1][1].name # "start"
    \/ HasFirstCommand /\ \E i \in 2 .. Len(arranger.commands[1]) :
                             lower(<<arranger.commands[1][i].name>>)[1] \notin {"line", "arc"}

(* a Ribbon constructed from a dictionary without 'start' or without 'path' *)
DictLacksKey ==
    /\ call.op = "Ribbon" /\ call.commands.kind = "dict"
    /\ call.commands.start = <<>> \/ call.commands.path = <<>>

(* C16: an invalid ribbon description is rejected with ValueError: render  *)
(* raises ValueError when the workplane is None, when the command list is  *)
(* None, when the first command is not 'start' or when a later command is  *)
(* neither 'line' nor 'arc', and constructing a Ribbon from a dictionary   *)
(* that lacks the 'start' key or the 'path' key raises ValueError.         *)
InvalidRibbonRaisesValueError ==
    /\ (call.op = "render" /\ InvalidDescription) =>
          /\ call.pc # "done"
          /\ call.pc = "raised" => outcome = "ValueError"
    /\ DictLacksKey => outcome = "ValueError"

(***************************************************************************)
(* Properties of an XSection (checked under SpecXSection).                 *)
(***************************************************************************)
(* get_points() called with its default arguments *)
GetPointsDefault ==
    /\ call.op = "get_points"
    /\ ~call.flipped /\ call.scaled.kind = "None" /\ call.translated = <<>> /\ ~call.only_tuples

(* the mirror image of the position <<x, y>> about the mirror axis: the    *)
(* first axis of the workplane keeps x, the second keeps y                 *)
MirrorImage(xy) ==
    IF arranger.mirror_axis = arranger.workplane[1] THEN <<xy[1], 0 - xy[2]>>
    ELSE <<0 - xy[1], xy[2]>>

(* TRUE where the point lies on the mirror axis *)
OnMirrorAxis(pt) == MirrorImage(pt.xy) = pt.xy

(* a symmetric cross-section of n >= 2 points, the first and the last on   *)
(* the mirror axis                                                         *)
SymmetricHalf ==
    /\ arranger.symmetric /\ Len(arranger.pts) >= 2
    /\ OnMirrorAxis(arranger.pts[1]) /\ OnMirrorAxis(arranger.pts[Len(arranger.pts)])

NineAnchorCall == call.op = "set_size_anchored" /\ Len(call.anchor_pt) = 2

(* C18: set_size_anchored(w, h, anchor) leaves the rect with width w and   *)
(* height h and with the named anchor point where it was, for each of the  *)
(* nine anchors and for a rect of either orientation.                      *)
SetSizeAnchoredKeepsAnchor ==
    NineAnchorCall =>
        /\ bounds.width = call.width
        /\ bounds.height = call.height
        /\ get_anchor_pt(bounds, call.anchor_pt) = get_anchor_pt(call.before, call.anchor_pt)

MapCall == call.op = "map_pt_in_other_rect"

(* the ratio q = <<numerator, denominator>> is the number v *)
RatioIs(q, v) == q[1] = v * q[2]

(* the ratio q lies in the closed interval of a and b *)
RatioWithin(q, a, b) == Min2(a, b) * q[2] <= q[1] /\ q[1] <= Max2(a, b) * q[2]

(* C19: map_pt_in_other_rect maps the left, right, top and bottom edge of  *)
(* this rect to the same-named edge of the other rect, whatever bottom_up  *)
(* is on the two rects, and with clamp_bounds the result lies inside the   *)
(* other rect.                                                             *)
MapPtKeepsEdges ==
    MapCall =>
        /\ call.pt[1] = bounds.left => RatioIs(results[1], rects[1].left)
        /\ call.pt[1] = bounds.right => RatioIs(results[1], rects[1].right)
        /\ call.pt[2] = bounds.top => RatioIs(results[2], rects[1].top)
        /\ call.pt[2] = bounds.bottom => RatioIs(results[2], rects[1].bottom)
        /\ call.clamp_bounds =>
              /\ RatioWithin(results[1], rects[1].left, rects[1].right)
              /\ RatioWithin(results[2], rects[1].top, rects[1].bottom)

(* the point pt turned counter-clockwise about p by q quarter turns *)
TurnedAbout(pt, p, q) ==
    Point(p.x + cos(q * 90 * RibbonUnit) * (pt.x - p.x) - sin(q * 90 * RibbonUnit) * (pt.y - p.y),
          p.y + sin(q * 90 * RibbonUnit) * (pt.x - p.x) + cos(q * 90 * RibbonUnit) * (pt.y - p.y))

(* C20: rotate_about(p, theta) returns this point rotated counter-clockwise *)
(* around p by theta (a quarter turn of (1, 0) about the origin gives      *)
(* (0, 1)) and leaves the point it is called of unchanged.                 *)
RotateAboutTurnsThePoint ==
    call.op = "rotate_about" =>
        /\ results = TurnedAbout(call.before, call.p, call.theta)
        /\ arranger = call.before

(***************************************************************************)
(* Properties of is_valid_length (checked under SpecLength).               *)
(***************************************************************************)
(* the comparison that a constraint string starts with, "" for none *)
ComparisonOf(s) ==
    IF Len(s) >= 2 /\ s[1] \in {">", "<"} /\ s[2] = "=" THEN <<s[1], "=">>
    ELSE IF Len(s) >= 1 /\ s[1] \in {">", "<"} THEN <<s[1]>>
    ELSE <<>>

(* the numeral after the comparison *)
NumeralOf(s) == SubSeq(s, Len(ComparisonOf(s)) + 1, Len(s))

(* a constraint of one of the forms c, '>c', '<c', '>=c', '<=c' and 'c' *)
WellFormed(c) ==
    c.kind = "str" =>
        /\ \A i \in DOMAIN NumeralOf(c.s) : IsDigit(NumeralOf(c.s)[i]) \/ NumeralOf(c.s)[i] \in {".", "-"}
        /\ float(NumeralOf(c.s)) # <<>>

(* the value satisfies the well-formed constraint c *)
Satisfies(value, c, tolerance) ==
    IF c.kind = "number" THEN Abs(value - c.v) < tolerance
    ELSE IF ComparisonOf(c.s) = <<">">> THEN value > float(NumeralOf(c.s))[1]
    ELSE IF ComparisonOf(c.s) = <<"<">> THEN value < float(NumeralOf(c.s))[1]
    ELSE IF ComparisonOf(c.s) = <<">", "=">> THEN value >= float(NumeralOf(c.s))[1]
    ELSE IF ComparisonOf(c.s) = <<"<", "=">> THEN value <= float(NumeralOf(c.s))[1]
    ELSE Abs(value - float(NumeralOf(c.s))[1]) < tolerance

IsValidLengthCalled ==
    /\ call.op = "is_valid_length"
    /\ \A i \in DOMAIN call.length_constraints.items : WellFormed(call.length_constraints.items[i])

(* C21: is_valid_length(value, constraints, tolerance) is True exactly     *)
(* when the value satisfies at least one of the constraints: a number c    *)
(* when |value - c| < tolerance, a string '>c', '<c', '>=c' or '<=c' when  *)
(* that comparison holds, a bare numeric string like the number it spells; *)
(* constraints that are not a list count as a list of one.                 *)
ValidLengthIffSomeConstraintHolds ==
    IsValidLengthCalled =>
        /\ outcome = "ok"
        /\ results = (\E i \in DOMAIN call.length_constraints.items :
                         Satisfies(call.length, call.length_constraints.items[i], call.tolerance))

(* a list of two constraints of which only the second, '>=2', holds, at    *)
(* the value 2                                                             *)
ValidLengthIffSomeConstraintHoldsWitness ==
    /\ IsValidLengthCalled
    /\ call.length_constraints.list
    /\ Len(call.length_constraints.items) = 2
    /\ call.length_constraints.items[1] = StrConstraint(<<"2", ".", "5">>)
    /\ call.length_constraints.items[2] = StrConstraint(<<">", "=", "2">>)
    /\ call.length = 2 * RibbonUnit
    /\ results = TRUE

(***************************************************************************)
(* Properties of the coordinate selectors (checked under SpecSelector).    *)
(***************************************************************************)
(* the axis coordinate of the vertex v satisfies the value constraint *)
VertexSatisfies(v) ==
    \E i \in DOMAIN call.coords.items :
       Satisfies(v[IF call.coord = "X" THEN 1 ELSE IF call.coord = "Y" THEN 2 ELSE 3],
                 call.coords.items[i], call.kw.tolerance[1])

(* the number of vertices of the object o that satisfy the constraint *)
SatisfyingVertices(o) == Cardinality({i \in DOMAIN o : VertexSatisfies(o[i])})

(* min_points of the call, 1 where it is not passed *)
MinPointsOf == IF call.kw.min_points = <<>> THEN 1 ELSE call.kw.min_points[1]

(* C22: a HasX/Y/ZCoordinateSelector built with (value, min_points=k)      *)
(* keeps exactly the objects with at least k vertices whose coordinate on  *)
(* that axis satisfies the value constraint (k is 1 by default), and one   *)
(* built with all_points=True keeps exactly the objects all of whose       *)
(* vertices satisfy it.                                                    *)
CoordinateSelectorKeeps ==
    /\ call.kw.all_points = <<TRUE>> => outcome = "ok"
    /\ (call.op = "filter" /\ call.kw.all_points = <<TRUE>>) =>
          results = SelectSeq(call.objectList, LAMBDA o : SatisfyingVertices(o) = Len(o))
    /\ (call.op = "filter" /\ call.kw.all_points = <<>>) =>
          results = SelectSeq(call.objectList, LAMBDA o : SatisfyingVertices(o) >= MinPointsOf)

(***************************************************************************)
(* Properties of repeated layouts (checked under SpecRelayout).            *)
(***************************************************************************)
(* the last layout call has returned normally *)
RelayoutDone == call.last /\ outcome = "ok"

(* C23: after layout_row_wise or layout_col_wise returns, no two rects     *)
(* overlap, for rects of positive width and height, any bounds, any valid  *)
(* shape, either value of hard_bounds_limit and grid_align, any gutter     *)
(* >= 0 and any alignment of each rect.                                    *)
LaidOutRectsDoNotOverlap ==
    RelayoutDone =>
        \A i \in DOMAIN rects, j \in DOMAIN rects : i # j => ~overlaps(rects[i], rects[j])

(* three rects of different alignments laid out on a grid in two rows with *)
(* gutters, after an earlier layout                                        *)
LaidOutRectsDoNotOverlapWitness ==
    /\ RelayoutDone
    /\ call.nth = 2
    /\ call.op = "layout_row_wise"
    /\ call.grid_align
    /\ call.gutter > 0
    /\ Len(rects) = 3
    /\ rects[1].vert_align = "bottom" /\ rects[2].vert_align = "top"
    /\ rects[1].height < rects[2].height
    /\ rects[3].row = 1 /\ rects[3].horz_align = "right"

(* the cell of rect i, major index first: <<row, col>> for a row-wise      *)
(* layout, <<col, row>> for a column-wise one                              *)
MajorMinor(i) ==
    IF call.op = "layout_row_wise" THEN <<rects[i].row, rects[i].col>>
    ELSE <<rects[i].col, rects[i].row>>

(* C24: after a layout returns normally every rect has a cell, no two      *)
(* rects share a cell, the cells of each row are the columns 0..k-1 and    *)
(* the rows are 0..m-1 without holes, and the cells read row by row, left  *)
(* to right, give the rects in list order (column-wise: rows and columns   *)
(* exchanged), also when the call follows an earlier layout.               *)
CellsFollowListOrder ==
    RelayoutDone =>
        /\ \A i \in DOMAIN rects : rects[i].row >= 0 /\ rects[i].col >= 0
        /\ MajorMinor(1) = <<0, 0>>
        /\ \A i \in 1 .. Len(rects) - 1 :
              \/ MajorMinor(i + 1) = <<MajorMinor(i)[1], MajorMinor(i)[2] + 1>>
              \/ MajorMinor(i + 1) = <<MajorMinor(i)[1] + 1, 0>>

(* a second layout, column-wise in two columns, of a RectLayout that was   *)
(* laid out before                                                         *)
CellsFollowListOrderWitness ==
    /\ RelayoutDone
    /\ call.nth = 2
    /\ call.op = "layout_col_wise"
    /\ Len(rects) = 3
    /\ rects[2].row = 1 /\ rects[2].col = 0
    /\ rects[3].row = 0 /\ rects[3].col = 1

(***************************************************************************)
(* Properties of the resize search: its length and the caller's bounds     *)
(* (checked under SpecResize).                                             *)
(***************************************************************************)
(* the search ended by falling back: its last layout was made in a         *)
(* container larger than the one before it                                 *)
ResizeFellBack ==
    /\ Len(results) >= 3
    /\ \/ results[Len(results)].bounds.width > results[Len(results) - 1].bounds.width
       \/ results[Len(results)].bounds.height > results[Len(results) - 1].bounds.height

(* the number of passes of the while loop: the layouts made after the      *)
(* first one, the fall back not counted                                    *)
ResizePasses == Len(results) - 1 - (IF ResizeFellBack THEN 1 ELSE 0)

SameEdges(a, b) ==
    /\ a.left = b.left /\ a.right = b.right /\ a.top = b.top /\ a.bottom = b.bottom
    /\ a.width = b.width /\ a.height = b.height

(* C27: optimize_layout treats the bounds argument as read-only: when it   *)
(* returns, the caller's bounds Rect has the left, right, top, bottom,     *)
(* width and height it had before the call (results[1].bounds, the         *)
(* container of the first layout, is the bounds as they were passed).      *)
BoundsArgumentIsReadOnly ==
    (ResizeDone /\ results # <<>>) => SameEdges(bounds, results[1].bounds)

(***************************************************************************)
(* Property of the reshape search: exceptions (checked under SpecReshape). *)
(***************************************************************************)
(* C25: optimize_layout(bounds, strategy='reshape') returns normally,      *)
(* without raising an exception, for every non-empty list of rects with    *)
(* positive width and height and every bounds with positive width and      *)
(* height.                                                                 *)
ReshapeNeverRaises ==
    (/\ call.op = "optimize_layout" /\ call.strategy = "reshape"
     /\ Len(rects) > 0
     /\ \A i \in DOMAIN rects : rects[i].width > 0 /\ rects[i].height > 0
     /\ bounds.width > 0 /\ bounds.height > 0)
        => outcome = "ok"

(***************************************************************************)
(* Property of the pre-transform keywords (checked under SpecPre).         *)
(***************************************************************************)
(* the number of pre-transform keywords passed *)
KeywordsPassed(kw) ==
    Cardinality({k \in {"sort_dim", "sort_area", "sort_vol", "alt_rotate"} : kw[k] # <<>>})

(* an arranger with the sizes of its solids as they are now *)
SizedNow(a) == _cache_obj_sizes([a EXCEPT !._obj_sizes = <<>>])

(* the solids after the keywords passed are applied one after the other,   *)
(* each on the sizes of the solids as the one before it left them          *)
AppliedInOrder(a, kw) ==
    LET a1 == IF kw.sort_dim # <<>> THEN obj_sort_dim(SizedNow(a), kw.sort_dim[1]) ELSE a
        a2 == IF kw.sort_area # <<>> THEN obj_sort_area(SizedNow(a1), kw.sort_area[1]) ELSE a1
        a3 == IF kw.sort_vol # <<>> THEN obj_sort_vol(SizedNow(a2), kw.sort_vol[1]) ELSE a2
    IN  (IF kw.alt_rotate # <<>> THEN obj_alt_rotate(a3, kw.alt_rotate[1]) ELSE a3).solids

(* C28: when two or more of sort_dim, sort_area, sort_vol and alt_rotate   *)
(* are passed to one layout call, the call completes and leaves the        *)
(* objects as the keywords applied in that order leave them, each sort     *)
(* keyed on the sizes of the objects in their order at that moment.        *)
CombinedPreTransformsApply ==
    (/\ call.op \in {"layout_x_wise", "layout_y_wise", "layout_z_wise"}
     /\ KeywordsPassed(call.args) >= 2)
        => /\ outcome = "ok"
           /\ arranger.solids
                = AppliedInOrder([arranger EXCEPT !.solids = call.solids_before], call.args)

(***************************************************************************)
(* Property of the reads of an arranger (checked under SpecReads).         *)
(***************************************************************************)
(* the limits of a bounding box as the flat tuple of the constructor *)
LimitsOf(box) == <<box.xmin, box.xmax, box.ymin, box.ymax, box.zmin, box.zmax>>

(* TRUE where the interval lo .. hi is the interval blo .. bhi of the       *)
(* bounds less the two margins m1 and m2 of its axis, each taken once, one  *)
(* from each end                                                            *)
LessMarginsOnce(lo, hi, blo, bhi, m1, m2) ==
    /\ {lo - blo, bhi - hi} = {m1, m2}
    /\ hi - lo = (bhi - blo) - m1 - m2

(* a read of the arranger has been made *)
ReadDone == call.op \in {"avail", "gap", "enough_space", "whitespace"}

(* C29: reading x_avail / y_avail / z_avail, the gaps, enough_space or     *)
(* whitespace any number of times and in any order, with no fixed          *)
(* coordinate set, leaves bounds unchanged and leaves inset equal to       *)
(* bounds minus the margins: the margins are never applied cumulatively.   *)
ReadsLeaveInsetAtBoundsLessMargins ==
    (/\ ReadDone
     /\ arranger.fixed_x = <<>> /\ arranger.fixed_y = <<>> /\ arranger.fixed_z = <<>>)
        => /\ LimitsOf(arranger.bounds) = call.bounds
           /\ LessMarginsOnce(arranger.inset.xmin, arranger.inset.xmax,
                              call.bounds[1], call.bounds[2],
                              GivenMargin(call.kw, "x_margin", "left_margin"),
                              GivenMargin(call.kw, "x_margin", "right_margin"))
           /\ LessMarginsOnce(arranger.inset.ymin, arranger.inset.ymax,
                              call.bounds[3], call.bounds[4],
                              GivenMargin(call.kw, "y_margin", "front_margin"),
                              GivenMargin(call.kw, "y_margin", "back_margin"))
           /\ LessMarginsOnce(arranger.inset.zmin, arranger.inset.zmax,
                              call.bounds[5], call.bounds[6],
                              GivenMargin(call.kw, "z_margin", "bottom_margin"),
                              GivenMargin(call.kw, "z_margin", "top_margin"))
           /\ arranger.inset.xlen = arranger.inset.xmax - arranger.inset.xmin
           /\ arranger.inset.ylen = arranger.inset.ymax - arranger.inset.ymin
           /\ arranger.inset.zlen = arranger.inset.zmax - arranger.inset.zmin

(* two reads of different kinds of an arranger whose margins are not all   *)
(* zero                                                                    *)
ReadsLeaveInsetAtBoundsLessMarginsWitness ==
    /\ ReadDone /\ ReadsIn(call) >= 2 /\ call.prev.op # call.op
    /\ LimitsOf(arranger.inset) # LimitsOf(arranger.bounds)

(***************************************************************************)
(* Property of the Rect moves (checked under SpecMove).                    *)
(***************************************************************************)
MoveDone ==
    call.op \in {"move_to", "move_by", "move_top_left_to", "move_top_right_to",
                 "move_bottom_left_to", "move_bottom_right_to"}

(* C30: every Rect move operation (move_to, move_by and the four corner    *)
(* moves) preserves the width and height of the rect and leaves its edges  *)
(* consistent with them: right - left = width, |top - bottom| = height,    *)
(* top >= bottom when bottom_up is False and top <= bottom when it is      *)
(* True.                                                                   *)
MovesKeepSizeAndEdges ==
    MoveDone =>
        /\ bounds.width = call.before.width
        /\ bounds.height = call.before.height
        /\ bounds.right - bounds.left = bounds.width
        /\ Abs(bounds.top - bounds.bottom) = bounds.height
        /\ IF bounds.bottom_up THEN bounds.top <= bounds.bottom
           ELSE bounds.top >= bounds.bottom

(* a bottom-up rect put by its top right corner after an earlier move that *)
(* took it elsewhere                                                       *)
MovesKeepSizeAndEdgesWitness ==
    /\ call.op = "move_top_right_to" /\ call.moves = 2
    /\ bounds.bottom_up /\ bounds.height > 0
    /\ bounds.left # call.before.left /\ bounds.top # call.before.top

====
